---- MODULE Spec2Model ----
(***************************************************************************)
(* A model of the NSE 200 momentum rebalancing tool (src/utils.py,         *)
(* src/nse200_algorithm.py).                                               *)
(*                                                                         *)
(* Numbers.  The program computes with Python floats.  The model computes  *)
(* the same expressions exactly: money that stays whole (prices, cash,     *)
(* units * price) is an integer, and the amounts that are true fractions   *)
(* (allocation amounts, priority weights) are rationals <<n, d>> in lowest *)
(* terms.  Float rounding is outside the model.                            *)
(*                                                                         *)
(* Optional values.  A Python Optional is a sequence of length at most 1:  *)
(* None is <<>> and a value v is <<v>>.                                    *)
(***************************************************************************)
EXTENDS Integers, Sequences, FiniteSets, TLC

VARIABLES
    pc,                     \* the position of the running call
    nse200_df,              \* the universe table: the symbols of its rows, in row order
    price_feed,             \* symbol -> Optional price: what get_current_price returns
    returns_feed,           \* symbol -> Optional rational: what get_returns(instkey, 4) returns
    gains_feed,             \* symbol -> Optional rational: what get_returns(instkey, weeks) returns
    file,                   \* the portfolio CSV file: Optional sequence of rows
    dry_run,                \* run_algorithm's dry_run argument
    extra_money,            \* update_portfolio's extra_money argument
    sorted_stocks,          \* run_algorithm: the ranking
    top_40,                 \* run_algorithm
    top_20,                 \* run_algorithm
    current_portfolio,      \* run_algorithm: the ledger loaded in step 3
    buy_list,               \* calculate_portfolio_changes' buy / smart_allocate_cash's buy_list
    sell_list,              \* calculate_portfolio_changes' sell (a set: its order is a set's)
    hold_list,              \* calculate_portfolio_changes' hold
    df,                     \* update_portfolio / redistribute_remaining_cash: the ledger in memory
    value_before,           \* the value of the loaded ledger at the feed's prices
    available_cash,         \* update_portfolio / smart_allocate_cash
    allocations,            \* result of smart_allocate_cash: symbol -> rational amount
    existing_cash,          \* update_portfolio
    sell_proceeds,          \* update_portfolio
    total_investment,       \* update_portfolio
    remaining_cash,         \* update_portfolio / redistribute_remaining_cash's argument
    cash_to_redistribute,   \* redistribute_remaining_cash
    buyable_stocks,         \* redistribute_remaining_cash: sequence of [symbol, price]
    stock_idx,              \* redistribute_remaining_cash: position of the for loop
    bought_this_round,      \* redistribute_remaining_cash
    purchases,              \* redistribute_remaining_cash: the units bought, in order
    final_remaining_cash,   \* redistribute_remaining_cash's second result
    steps,                  \* the steps of the cycle entered so far, in order
    call_symbol,            \* calculate_units_to_buy: its symbol argument
    call_amount,            \* calculate_units_to_buy: its allocation_amount argument
    units_and_price,        \* calculate_units_to_buy: the <<units, price>> it returns
    window,                 \* _process_candle_data: the candles of the response
    candle_return,          \* _process_candle_data: the Optional return it computes
    responses,              \* symbol -> what its historical-candle request answers
    strategy_idx,           \* get_current_price: position of the loop over strategies
    attempt,                \* get_current_price: the attempt of the current strategy
    fetches,                \* get_current_price: the requests made so far, in order
    outcome,                \* get_current_price: what the last request answered
    slept,                  \* get_current_price: the sleeps that followed the last request
    latest_price,           \* get_current_price: the Optional price it returns
    now,                    \* time.time()
    _cache_memory,          \* APICache: cache key -> response
    _cache_timestamps,      \* APICache: cache key -> time of the entry
    cache_files,            \* the cache directory: cache key -> content of <key>.json
    cached,                 \* the APICache.get that just ended: its key, what it found, its result
    stored,                 \* cache key -> the response and time of the last set that wrote it
    cleared                 \* the cache keys no set has written since the last clear_all

unitsVars == << call_symbol, call_amount, units_and_price >>
candleVars == << window, candle_return, responses >>
resolverVars == << strategy_idx, attempt, fetches, outcome, slept, latest_price >>
cacheVars == << now, _cache_memory, _cache_timestamps, cache_files, cached, stored,
               cleared >>

vars == << pc, nse200_df, price_feed, returns_feed, gains_feed, file, dry_run, extra_money,
           existing_cash, sell_proceeds,
           sorted_stocks, top_40, top_20, current_portfolio, buy_list, sell_list,
           hold_list, df, value_before, available_cash, allocations, total_investment,
           remaining_cash, cash_to_redistribute, buyable_stocks, stock_idx,
           bought_this_round, purchases, final_remaining_cash, steps,
           unitsVars, candleVars, resolverVars, cacheVars >>

feedVars == << nse200_df, price_feed, returns_feed, gains_feed >>
\* what the steps of a rebalance cycle leave alone
envVars == << feedVars, unitsVars, candleVars, resolverVars, cacheVars >>
rankVars == << sorted_stocks, top_40, top_20, current_portfolio, sell_list, hold_list >>
redistVars == << cash_to_redistribute, buyable_stocks, stock_idx, bought_this_round,
                 purchases, final_remaining_cash >>
\* the variables of a rebalance cycle, the position apart
cycleVars == << file, dry_run, extra_money, rankVars, buy_list, df, value_before,
                available_cash, allocations, existing_cash, sell_proceeds,
                total_investment, remaining_cash, redistVars, steps >>

(***************************************************************************)
(* Optional values, sequences, rationals                                   *)
(***************************************************************************)
None == << >>
Some(v) == << v >>

Range(s) == { s[k] : k \in DOMAIN s }
NoDuplicates(s) == \A a, b \in DOMAIN s : a # b => s[a] # s[b]
Take(s, n) == SubSeq(s, 1, IF n < Len(s) THEN n ELSE Len(s))

RECURSIVE SeqsUpTo(_, _)
\* the duplicate-free sequences over S of length at most n
SeqsUpTo(S, n) ==
    IF n = 0 THEN { << >> }
    ELSE LET shorter == SeqsUpTo(S, n - 1)
         IN shorter \cup { Append(s[1], s[2]) :
                               s \in { t \in shorter \X S : t[2] \notin Range(t[1]) } }

RECURSIVE GCD(_, _)
GCD(a, b) == IF b = 0 THEN a ELSE GCD(b, a % b)
Abs(a) == IF a < 0 THEN -a ELSE a

\* the rational n / d (d # 0) in lowest terms with a positive denominator
Rat(n, d) ==
    LET g == GCD(Abs(n), Abs(d))
        s == IF d < 0 THEN -1 ELSE 1
    IN << (s * n) \div g, (s * d) \div g >>
RatInt(n) == << n, 1 >>
RatAdd(a, b) == Rat(a[1] * b[2] + b[1] * a[2], a[2] * b[2])
RatSub(a, b) == Rat(a[1] * b[2] - b[1] * a[2], a[2] * b[2])
RatMul(a, b) == Rat(a[1] * b[1], a[2] * b[2])
RatDiv(a, b) == Rat(a[1] * b[2], a[2] * b[1])
RatLT(a, b) == a[1] * b[2] < b[1] * a[2]
RatLE(a, b) == a[1] * b[2] <= b[1] * a[2]
\* Python's a // b for a rational a >= 0 and an integer b > 0
RatFloorDiv(a, b) == a[1] \div (a[2] * b)

RECURSIVE RatPow(_, _)
RatPow(a, n) == IF n = 0 THEN RatInt(1) ELSE RatMul(a, RatPow(a, n - 1))

RECURSIVE RatSum(_, _)
\* the sum of f[x] over the x of S
RatSum(f, S) ==
    IF S = {} THEN RatInt(0)
    ELSE LET x == CHOOSE y \in S : TRUE
         IN RatAdd(f[x], RatSum(f, S \ {x}))

(***************************************************************************)
(* The collaborators: the universe table and the price and return feeds    *)
(***************************************************************************)
\* nse200_df[nse200_df['Symbol'] == symbol] is not empty
in_nse200(symbol) == symbol \in Range(nse200_df)

\* get_current_price(instkey): the latest close, or None when every strategy failed
get_current_price(symbol) == price_feed[symbol]

\* get_returns(instkey, weeks) for the 4 weeks of the fallback estimate
get_returns_4w(symbol) == returns_feed[symbol]

large_cap_symbols == { "RELIANCE", "TCS", "INFY", "HDFCBANK", "BHARTIARTL", "ITC", "LT" }
mid_cap_symbols == { "ZOMATO", "PAYTM", "POLICYBZR" }

\* estimate_price_from_returns(symbol, instkey): Optional price
estimate_price_from_returns(symbol) ==
    LET returns_data == get_returns_4w(symbol)
        estimated_price == IF symbol \in large_cap_symbols THEN 2000
                           ELSE IF symbol \in mid_cap_symbols THEN 500
                           ELSE 1000
    IN IF returns_data = None THEN None
       ELSE IF RatLT(Rat(1, 2), returns_data[1]) THEN Some((estimated_price * 15) \div 10)
       ELSE IF RatLT(Rat(1, 5), returns_data[1]) THEN Some((estimated_price * 12) \div 10)
       ELSE IF RatLT(returns_data[1], Rat(-1, 5)) THEN Some((estimated_price * 8) \div 10)
       ELSE Some(estimated_price)

\* price_used taking the estimate whenever there is one
price_used_prefer_estimate(symbol) ==
    LET current_price == get_current_price(symbol)
        fallback_price == estimate_price_from_returns(symbol)
    IN IF fallback_price # None THEN fallback_price ELSE current_price

\* the price calculate_units_to_buy settles on (use_fallback = True): Optional price
price_used(symbol) ==
    LET current_price == get_current_price(symbol)
        fallback_price == estimate_price_from_returns(symbol)
    IN IF current_price = None /\ fallback_price # None THEN fallback_price
       ELSE current_price

\* calculate_units_to_buy rounding the units up instead of down
calculate_units_to_buy_round_up(symbol, allocation_amount) ==
    LET current_price == price_used(symbol)
    IN IF current_price = None THEN << 0, 0 >>
       ELSE << (allocation_amount[1] + allocation_amount[2] * current_price[1] - 1)
                   \div (allocation_amount[2] * current_price[1]),
               current_price[1] >>

\* calculate_units_to_buy(symbol, instkey, allocation_amount): <<units, price used>>
calculate_units_to_buy(symbol, allocation_amount) ==
    LET current_price == price_used(symbol)
    IN IF current_price = None THEN << 0, 0 >>
       ELSE << RatFloorDiv(allocation_amount, current_price[1]), current_price[1] >>

(***************************************************************************)
(* smart_allocate_cash                                                     *)
(***************************************************************************)
\* d[k] = v on a dict d kept as a function
DictSet(d, k, v) == [ x \in (DOMAIN d) \cup {k} |-> IF x = k THEN v ELSE d[x] ]
EmptyDict == [ x \in {} |-> 0 ]

\* Step 1: the prices of the buy list's symbols that have one
stock_prices_of(buy, cash) ==
    LET min_allocation == RatMul(RatInt(cash), Rat(2, 100))
        priced == { s \in Range(buy) :
                      in_nse200(s) /\ calculate_units_to_buy(s, min_allocation)[2] > 0 }
    IN [ s \in priced |-> calculate_units_to_buy(s, min_allocation)[2] ]

RECURSIVE guarantee_phase_no_deduct(_, _, _, _)
\* guarantee_phase without "remaining_cash -= price"
guarantee_phase_no_deduct(buy, stock_prices, k, st) ==
    IF k > Len(buy) THEN st
    ELSE LET symbol == buy[k]
         IN IF symbol \in DOMAIN stock_prices /\ stock_prices[symbol] <= st.remaining_cash
            THEN guarantee_phase_no_deduct(buy, stock_prices, k + 1,
                    [ allocations |-> DictSet(st.allocations, symbol,
                                              RatInt(stock_prices[symbol])),
                      remaining_cash |-> st.remaining_cash,
                      affordable_stocks |-> Append(st.affordable_stocks, symbol) ])
            ELSE guarantee_phase_no_deduct(buy, stock_prices, k + 1, st)

RECURSIVE guarantee_phase_stop(_, _, _, _)
\* guarantee_phase leaving its loop at the first symbol that is too expensive
guarantee_phase_stop(buy, stock_prices, k, st) ==
    IF k > Len(buy) THEN st
    ELSE LET symbol == buy[k]
         IN IF symbol \notin DOMAIN stock_prices
            THEN guarantee_phase_stop(buy, stock_prices, k + 1, st)
            ELSE IF stock_prices[symbol] <= st.remaining_cash
            THEN guarantee_phase_stop(buy, stock_prices, k + 1,
                    [ allocations |-> DictSet(st.allocations, symbol,
                                              RatInt(stock_prices[symbol])),
                      remaining_cash |-> st.remaining_cash - stock_prices[symbol],
                      affordable_stocks |-> Append(st.affordable_stocks, symbol) ])
            ELSE st

RECURSIVE guarantee_phase_strict(_, _, _, _)
\* guarantee_phase passing over a symbol whose price is exactly the remaining cash
guarantee_phase_strict(buy, stock_prices, k, st) ==
    IF k > Len(buy) THEN st
    ELSE LET symbol == buy[k]
         IN IF symbol \in DOMAIN stock_prices /\ stock_prices[symbol] < st.remaining_cash
            THEN guarantee_phase_strict(buy, stock_prices, k + 1,
                    [ allocations |-> DictSet(st.allocations, symbol,
                                              RatInt(stock_prices[symbol])),
                      remaining_cash |-> st.remaining_cash - stock_prices[symbol],
                      affordable_stocks |-> Append(st.affordable_stocks, symbol) ])
            ELSE guarantee_phase_strict(buy, stock_prices, k + 1, st)

RECURSIVE guarantee_phase(_, _, _, _)
\* Phase 1 from position k on: st = [allocations, remaining_cash, affordable_stocks]
guarantee_phase(buy, stock_prices, k, st) ==
    IF k > Len(buy) THEN st
    ELSE LET symbol == buy[k]
         IN IF symbol \in DOMAIN stock_prices /\ stock_prices[symbol] <= st.remaining_cash
            THEN guarantee_phase(buy, stock_prices, k + 1,
                    [ allocations |-> DictSet(st.allocations, symbol,
                                              RatInt(stock_prices[symbol])),
                      remaining_cash |-> st.remaining_cash - stock_prices[symbol],
                      affordable_stocks |-> Append(st.affordable_stocks, symbol) ])
            ELSE guarantee_phase(buy, stock_prices, k + 1, st)

\* priority_weight with a decay of 0.5
priority_weight_steeper(i) == RatMul(RatInt(20), RatPow(Rat(5, 10), i))

\* weight = 20 * (0.8 ** i) for the 0-indexed position i
priority_weight(i) == RatMul(RatInt(20), RatPow(Rat(8, 10), i))

\* weighted_phase spreading the remaining cash in equal shares
weighted_phase_equal(st) ==
    LET affordable_stocks == st.affordable_stocks
    IN IF st.remaining_cash > 0 /\ affordable_stocks # << >>
       THEN [ s \in DOMAIN st.allocations |->
                RatAdd(st.allocations[s],
                       Rat(st.remaining_cash, Len(affordable_stocks))) ]
       ELSE st.allocations

\* Phase 2: the allocations after the remaining cash is spread by weight
weighted_phase(st) ==
    LET affordable_stocks == st.affordable_stocks
        weights == [ k \in DOMAIN affordable_stocks |-> priority_weight(k - 1) ]
        total_weight == RatSum(weights, DOMAIN affordable_stocks)
        position(s) == CHOOSE k \in DOMAIN affordable_stocks : affordable_stocks[k] = s
    IN IF st.remaining_cash > 0 /\ affordable_stocks # << >>
       THEN [ s \in DOMAIN st.allocations |->
                RatAdd(st.allocations[s],
                       RatMul(RatDiv(weights[position(s)], total_weight),
                              RatInt(st.remaining_cash))) ]
       ELSE st.allocations

\* smart_allocate_cash(buy_list, nse200_df, available_cash):
\* [raised: None or the exception, allocations: symbol -> amount]
smart_allocate_cash(buy, cash) ==
    LET stock_prices == stock_prices_of(buy, cash)
        start == [ allocations |-> EmptyDict, remaining_cash |-> cash,
                   affordable_stocks |-> << >> ]
    IN IF DOMAIN stock_prices = {}
       THEN IF Len(buy) = 0
            THEN [ raised |-> Some("ZeroDivisionError"), allocations |-> EmptyDict ]
            ELSE [ raised |-> None,
                   allocations |-> [ s \in Range(buy) |-> Rat(cash, Len(buy)) ] ]
       ELSE [ raised |-> None,
              allocations |-> weighted_phase(guarantee_phase(buy, stock_prices, 1, start)) ]

\* the sum of the amounts of an allocation
TotalAllocated(alloc) == RatSum(alloc, DOMAIN alloc)

(***************************************************************************)
(* Candles.  A candle row is << timestamp, open, high, low, close >>; its  *)
(* timestamp, an ISO 8601 string with a UTC offset in the response, is the *)
(* record of the string's fields: the day (counted from the epoch's), the  *)
(* hour of the day and the offset from UTC in minutes.                     *)
(***************************************************************************)
\* int(datetime.fromisoformat(crow[0]).timestamp()): the seconds since the epoch
datesort(crow) ==
    LET dt == crow[1]
    IN ((dt.day * 24 + dt.hour) * 60 - dt.utcoffset) * 60

\* sorted_by_datesort without the sort: the response's order
response_order(candles) == candles

RECURSIVE sorted_by_datesort(_)
\* candles.sort(key = datesort, reverse = True): newest first, equal keys in their order
sorted_by_datesort(candles) ==
    IF candles = << >> THEN << >>
    ELSE LET n == Len(candles)
             last == candles[n]
             init == sorted_by_datesort(SubSeq(candles, 1, n - 1))
             keep == Cardinality({ j \in DOMAIN init : datesort(init[j]) >= datesort(last) })
         IN SubSeq(init, 1, keep) \o << last >> \o SubSeq(init, keep + 1, Len(init))

\* _process_candle_data without the sort: the first and last rows of the response
_process_candle_data_unsorted(candles) ==
    IF candles = << >> THEN None
    ELSE LET start_price == candles[Len(candles)][5]
             end_price == candles[1][5]
         IN IF start_price = 0 THEN None
            ELSE Some(Rat(end_price - start_price, start_price))

\* _process_candle_data(response_data, instkey) on the candles of the response:
\* the Optional return
_process_candle_data(candles) ==
    IF candles = << >> THEN None
    ELSE LET sorted == sorted_by_datesort(candles)
             start_price == sorted[Len(sorted)][5]
             end_price == sorted[1][5]
         IN IF start_price = 0 THEN None
            ELSE Some(Rat(end_price - start_price, start_price))

(***************************************************************************)
(* The Return Ranker and the Rebalance Decision Engine                     *)
(***************************************************************************)
\* get_returns(instkey, weeks) for the strategy's lookback
get_returns(symbol) == gains_feed[symbol]

RECURSIVE sym_returns_skip_missing(_, _)
\* sym_returns_of leaving out the symbols whose get_returns is None
sym_returns_skip_missing(rows, k) ==
    IF k = 0 THEN << >>
    ELSE LET before == sym_returns_skip_missing(rows, k - 1)
             returns == get_returns(rows[k])
         IN IF returns = None \/ \E j \in DOMAIN before : before[j].symbol = rows[k]
            THEN before
            ELSE Append(before, [ symbol |-> rows[k], gain |-> returns[1] ])

RECURSIVE sym_returns_of(_, _)
\* the dict sym_returns after the first k rows of the universe: a sequence of
\* [symbol, gain] in insertion order, a repeated symbol keeping its first place
sym_returns_of(rows, k) ==
    IF k = 0 THEN << >>
    ELSE LET before == sym_returns_of(rows, k - 1)
             symbol == rows[k]
             returns == get_returns(symbol)
             gain == IF returns # None THEN returns[1] ELSE RatInt(0)
         IN IF \E j \in DOMAIN before : before[j].symbol = symbol
            THEN [ j \in DOMAIN before |->
                     IF before[j].symbol = symbol THEN [ before[j] EXCEPT !.gain = gain ]
                     ELSE before[j] ]
            ELSE Append(before, [ symbol |-> symbol, gain |-> gain ])

RECURSIVE sorted_by_gain(_)
\* sorted(items, key = gain, reverse = True): descending and stable
sorted_by_gain(items) ==
    IF items = << >> THEN << >>
    ELSE LET n == Len(items)
             last == items[n]
             init == sorted_by_gain(SubSeq(items, 1, n - 1))
             \* last goes after every element whose gain is at least its own
             keep == Cardinality({ j \in DOMAIN init : RatLE(last.gain, init[j].gain) })
         IN SubSeq(init, 1, keep) \o << last >> \o SubSeq(init, keep + 1, Len(init))

\* calculate_returns_for_all_stocks(weeks)
calculate_returns_for_all_stocks ==
    sorted_by_gain(sym_returns_of(nse200_df, Len(nse200_df)))

SymbolsOf(stocks) == [ k \in DOMAIN stocks |-> stocks[k].symbol ]
ColumnSymbol(rows) == { rows[k].Symbol : k \in DOMAIN rows }

\* calculate_portfolio_changes leaving the symbols already held out of the buy list
calculate_portfolio_changes_skip_held(portfolio, t40, t20) ==
    LET top_40_symbols == Range(SymbolsOf(t40))
        top_20_symbols == Range(SymbolsOf(t20))
        current_symbols == ColumnSymbol(portfolio)
    IN [ buy |-> SelectSeq(SymbolsOf(t20), LAMBDA s : s \notin current_symbols),
         sell |-> { s \in current_symbols : s \notin top_40_symbols },
         hold |-> { s \in current_symbols :
                      s \in top_40_symbols /\ s \notin top_20_symbols } ]

\* calculate_portfolio_changes(current_portfolio, top_40, top_20):
\* [buy: sequence, sell: set, hold: set] (sell and hold are filled in a set's order)
calculate_portfolio_changes(portfolio, t40, t20) ==
    LET top_40_symbols == Range(SymbolsOf(t40))
        top_20_symbols == Range(SymbolsOf(t20))
        current_symbols == ColumnSymbol(portfolio)
    IN [ buy |-> SymbolsOf(t20),
         sell |-> { s \in current_symbols : s \notin top_40_symbols },
         hold |-> { s \in current_symbols :
                      s \in top_40_symbols /\ s \notin top_20_symbols } ]

(***************************************************************************)
(* The Portfolio Ledger: a DataFrame is the sequence of its rows           *)
(***************************************************************************)
Row(symbol, units) == [ Symbol |-> symbol, Units |-> units ]

\* df[df['Symbol'] == symbol]
rows_of(rows, symbol) == SelectSeq(rows, LAMBDA r : r.Symbol = symbol)
\* df[df['Symbol'] != symbol]
rows_without(rows, symbol) == SelectSeq(rows, LAMBDA r : r.Symbol # symbol)
\* df.loc[df['Symbol'] == symbol, 'Units'] = units
set_units(rows, symbol, units) ==
    [ k \in DOMAIN rows |-> IF rows[k].Symbol = symbol THEN Row(symbol, units) ELSE rows[k] ]
\* add_unit taking a unit away
add_unit_remove(rows, symbol) ==
    [ k \in DOMAIN rows |->
        IF rows[k].Symbol = symbol THEN Row(symbol, rows[k].Units - 1) ELSE rows[k] ]

\* df.loc[df['Symbol'] == symbol, 'Units'] += 1
add_unit(rows, symbol) ==
    [ k \in DOMAIN rows |->
        IF rows[k].Symbol = symbol THEN Row(symbol, rows[k].Units + 1) ELSE rows[k] ]

\* load_current_portfolio(portfolio_file): the rows read; a missing file reads as empty
load_current_portfolio == IF file = None THEN << >> ELSE file[1]
\* ... and is created empty
file_after_load == IF file = None THEN Some(<< >>) ELSE file

\* float(cash_row.iloc[0]['Units']) when there is a CASH row, else 0
cash_of(rows) == IF rows_of(rows, "CASH") = << >> THEN 0 ELSE rows_of(rows, "CASH")[1].Units

RECURSIVE PositionsValue(_)
\* the sum of units * price over the rows of real symbols that have a price
PositionsValue(rows) ==
    IF rows = << >> THEN 0
    ELSE LET r == Head(rows)
             worth == IF r.Symbol # "CASH" /\ in_nse200(r.Symbol)
                         /\ get_current_price(r.Symbol) # None
                      THEN r.Units * get_current_price(r.Symbol)[1] ELSE 0
         IN worth + PositionsValue(Tail(rows))

\* the total portfolio value: the positions' value plus the CASH balance
PortfolioValue(rows) == PositionsValue(rows) + cash_of(rows)

(***************************************************************************)
(* redistribute_remaining_cash, one action per step of its loops           *)
(***************************************************************************)
min_cash_threshold == 1000

\* sorted_by_price without the sort: the rows' order
unsorted(stocks) == stocks

RECURSIVE sorted_by_price(_)
\* buyable_stocks.sort(key = price): ascending and stable
sorted_by_price(stocks) ==
    IF stocks = << >> THEN << >>
    ELSE LET n == Len(stocks)
             last == stocks[n]
             init == sorted_by_price(SubSeq(stocks, 1, n - 1))
             \* last goes after every element whose price is at most its own
         IN SelectSeq(init, LAMBDA x : x.price <= last.price) \o << last >>
               \o SelectSeq(init, LAMBDA x : x.price > last.price)

\* the rows of df that can take more units with `cash`, as [symbol, price], in row order
buyable_of(rows, cash) ==
    LET stock_positions == rows_without(rows, "CASH")
        fits(r) == /\ in_nse200(r.Symbol)
                   /\ get_current_price(r.Symbol) # None
                   /\ get_current_price(r.Symbol)[1] # 0
                   /\ get_current_price(r.Symbol)[1] <= cash
        chosen == SelectSeq(stock_positions, fits)
    IN [ k \in DOMAIN chosen |->
           [ symbol |-> chosen[k].Symbol, price |-> get_current_price(chosen[k].Symbol)[1] ] ]

\* min_price taking the largest price
max_price(stocks) ==
    CHOOSE p \in { stocks[k].price : k \in DOMAIN stocks } :
        \A k \in DOMAIN stocks : p >= stocks[k].price

min_price(stocks) ==
    CHOOSE p \in { stocks[k].price : k \in DOMAIN stocks } :
        \A k \in DOMAIN stocks : p <= stocks[k].price

\* lines 770-807: the early returns, the buyable list and its sort
RedistEnter ==
    /\ pc = "redistribute"
    /\ steps' = Append(steps, "REDISTRIBUTE_LEFTOVER")
    /\ purchases' = << >>
    /\ bought_this_round' = FALSE
    /\ stock_idx' = 0
    /\ IF remaining_cash <= min_cash_threshold
       THEN /\ pc' = "redist_returned"
            /\ final_remaining_cash' = remaining_cash
            /\ UNCHANGED << cash_to_redistribute, buyable_stocks >>
       ELSE LET cash == remaining_cash - min_cash_threshold
                buyable == buyable_of(df, cash)
            IN /\ cash_to_redistribute' = cash
               /\ IF buyable = << >>
                  THEN /\ pc' = "redist_returned"
                       /\ final_remaining_cash' = remaining_cash
                       /\ UNCHANGED buyable_stocks
                  ELSE /\ pc' = "redist_while"
                       /\ buyable_stocks' = sorted_by_price(buyable)
                       /\ UNCHANGED final_remaining_cash
    /\ UNCHANGED << envVars, rankVars, file, dry_run, extra_money, buy_list, df,
                    value_before, available_cash, allocations, existing_cash,
                    sell_proceeds, total_investment, remaining_cash >>

\* line 811: the while condition
RedistWhile ==
    /\ pc = "redist_while"
    /\ IF cash_to_redistribute >= min_price(buyable_stocks)
       THEN /\ pc' = "redist_for"
            /\ bought_this_round' = FALSE
            /\ stock_idx' = 1
       ELSE /\ pc' = "redist_finish"
            /\ UNCHANGED << bought_this_round, stock_idx >>
    /\ UNCHANGED << envVars, rankVars, file, dry_run, extra_money, buy_list, df,
                    value_before, available_cash, allocations, existing_cash,
                    sell_proceeds, total_investment, remaining_cash,
                    cash_to_redistribute, buyable_stocks, purchases,
                    final_remaining_cash, steps >>

\* RedistFor buying units of one position for as long as its price fits
RedistFor_greedy ==
    /\ pc = "redist_for"
    /\ stock_idx <= Len(buyable_stocks)
    /\ LET stock == buyable_stocks[stock_idx]
       IN IF cash_to_redistribute >= stock.price
          THEN /\ cash_to_redistribute' = cash_to_redistribute - stock.price
               /\ df' = add_unit(df, stock.symbol)
               /\ purchases' = Append(purchases,
                     [ symbol |-> stock.symbol,
                       left |-> min_cash_threshold + cash_to_redistribute' ])
               /\ bought_this_round' = TRUE
               /\ stock_idx' = stock_idx
          ELSE /\ stock_idx' = stock_idx + 1
               /\ UNCHANGED << cash_to_redistribute, df, purchases, bought_this_round >>
    /\ UNCHANGED << pc, envVars, rankVars, file, dry_run, extra_money, buy_list,
                    value_before, available_cash, allocations, existing_cash,
                    sell_proceeds, total_investment, remaining_cash, buyable_stocks,
                    final_remaining_cash, steps >>

\* RedistFor staying at a position whose price does not fit
RedistFor_retry ==
    /\ pc = "redist_for"
    /\ stock_idx <= Len(buyable_stocks)
    /\ LET stock == buyable_stocks[stock_idx]
       IN IF cash_to_redistribute >= stock.price
          THEN /\ cash_to_redistribute' = cash_to_redistribute - stock.price
               /\ df' = add_unit(df, stock.symbol)
               /\ purchases' = Append(purchases,
                     [ symbol |-> stock.symbol,
                       left |-> min_cash_threshold + cash_to_redistribute' ])
               /\ bought_this_round' = TRUE
               /\ stock_idx' = stock_idx + 1
          ELSE UNCHANGED << cash_to_redistribute, df, purchases, bought_this_round,
                            stock_idx >>
    /\ UNCHANGED << pc, envVars, rankVars, file, dry_run, extra_money, buy_list,
                    value_before, available_cash, allocations, existing_cash,
                    sell_proceeds, total_investment, remaining_cash, buyable_stocks,
                    final_remaining_cash, steps >>

\* lines 815-837: one pass of the for loop over buyable_stocks
RedistFor ==
    /\ pc = "redist_for"
    /\ stock_idx <= Len(buyable_stocks)
    /\ LET stock == buyable_stocks[stock_idx]
       IN IF cash_to_redistribute >= stock.price
          THEN /\ cash_to_redistribute' = cash_to_redistribute - stock.price
               /\ df' = add_unit(df, stock.symbol)
               /\ purchases' = Append(purchases,
                     [ symbol |-> stock.symbol,
                       left |-> min_cash_threshold + cash_to_redistribute' ])
               /\ bought_this_round' = TRUE
          ELSE UNCHANGED << cash_to_redistribute, df, purchases, bought_this_round >>
    /\ stock_idx' = stock_idx + 1
    /\ UNCHANGED << pc, envVars, rankVars, file, dry_run, extra_money, buy_list,
                    value_before, available_cash, allocations, existing_cash,
                    sell_proceeds, total_investment, remaining_cash, buyable_stocks,
                    final_remaining_cash, steps >>

\* lines 839-840: the end of a round
RedistRoundEnd ==
    /\ pc = "redist_for"
    /\ stock_idx > Len(buyable_stocks)
    /\ pc' = IF bought_this_round THEN "redist_while" ELSE "redist_finish"
    /\ UNCHANGED << envVars, rankVars, file, dry_run, extra_money, buy_list, df,
                    value_before, available_cash, allocations, existing_cash,
                    sell_proceeds, total_investment, remaining_cash, redistVars, steps >>

\* RedistFinish returning the cash to redistribute without the threshold set aside
RedistFinish_drop_reserve ==
    /\ pc = "redist_finish"
    /\ final_remaining_cash' = cash_to_redistribute
    /\ pc' = "redist_returned"
    /\ UNCHANGED << envVars, rankVars, file, dry_run, extra_money, buy_list, df,
                    value_before, available_cash, allocations, existing_cash,
                    sell_proceeds, total_investment, remaining_cash,
                    cash_to_redistribute, buyable_stocks, stock_idx, bought_this_round,
                    purchases, steps >>

\* lines 848-852
RedistFinish ==
    /\ pc = "redist_finish"
    /\ final_remaining_cash' = min_cash_threshold + cash_to_redistribute
    /\ pc' = "redist_returned"
    /\ UNCHANGED << envVars, rankVars, file, dry_run, extra_money, buy_list, df,
                    value_before, available_cash, allocations, existing_cash,
                    sell_proceeds, total_investment, remaining_cash,
                    cash_to_redistribute, buyable_stocks, stock_idx, bought_this_round,
                    purchases, steps >>

Redistribute == RedistEnter \/ RedistWhile \/ RedistFor \/ RedistRoundEnd \/ RedistFinish

(***************************************************************************)
(* update_portfolio                                                        *)
(***************************************************************************)
RECURSIVE sell_proceeds_of(_, _)
\* lines 336-350: the proceeds of the symbols of `sells` held in `rows`
sell_proceeds_of(rows, sells) ==
    IF sells = {} THEN 0
    ELSE LET symbol == CHOOSE x \in sells : TRUE
             symbol_row == rows_of(rows, symbol)
             current_price == get_current_price(symbol)
             proceeds == IF /\ symbol_row # << >>
                            /\ symbol_row[1].Units > 0
                            /\ in_nse200(symbol)
                            /\ current_price # None
                            /\ current_price[1] # 0
                         THEN symbol_row[1].Units * current_price[1] ELSE 0
         IN proceeds + sell_proceeds_of(rows, sells \ {symbol})

\* remove_sold emptying the ledger
remove_sold_everything(rows, sells) == SelectSeq(rows, LAMBDA r : FALSE)

RECURSIVE remove_sold(_, _)
\* lines 371-373
remove_sold(rows, sells) ==
    IF sells = {} THEN rows
    ELSE LET symbol == CHOOSE x \in sells : TRUE
         IN remove_sold(rows_without(rows, symbol), sells \ {symbol})

\* apply_buy adding a row for a symbol whether or not it is held
apply_buy_append(st, current_symbols, symbol, units_to_buy, current_price) ==
    [ df |-> Append(st.df, Row(symbol, units_to_buy)),
      total_investment |-> st.total_investment + units_to_buy * current_price ]

\* lines 419-431: one buy order applied to st = [df, total_investment]
apply_buy(st, current_symbols, symbol, units_to_buy, current_price) ==
    [ df |-> IF symbol \in current_symbols
             THEN set_units(st.df, symbol, units_to_buy)
             ELSE Append(st.df, Row(symbol, units_to_buy)),
      total_investment |-> st.total_investment + units_to_buy * current_price ]

RECURSIVE execute_buys(_, _, _, _, _)
\* lines 393-436 from position k of the buy list on
execute_buys(buy, alloc, current_symbols, k, st) ==
    IF k > Len(buy) THEN st
    ELSE LET symbol == buy[k]
             order == calculate_units_to_buy(symbol, alloc[symbol])
         IN IF symbol \notin DOMAIN alloc \/ ~in_nse200(symbol)
            THEN execute_buys(buy, alloc, current_symbols, k + 1, st)
            ELSE IF order[1] > 0 /\ order[2] > 0
            THEN execute_buys(buy, alloc, current_symbols, k + 1,
                              apply_buy(st, current_symbols, symbol, order[1], order[2]))
            ELSE execute_buys(buy, alloc, current_symbols, k + 1, st)

\* PORTFOLIO_VALUE * (1 - CASH_RESERVE_PERCENTAGE): utils.py imports both names from
\* config, and src/config.py sets neither, so the budget of a new portfolio is any of
\* these
NewPortfolioBudgets == { 3000, 8000 }

\* lines 326-333
UpLoad ==
    /\ pc = "update_portfolio"
    /\ df' = load_current_portfolio
    /\ file' = file_after_load
    /\ existing_cash' = cash_of(df')
    /\ value_before' = PortfolioValue(df')
    /\ steps' = Append(steps, "LOAD_PORTFOLIO")
    /\ pc' = "sell_proceeds"
    /\ UNCHANGED << envVars, rankVars, dry_run, extra_money, buy_list, available_cash,
                    allocations, sell_proceeds, total_investment, remaining_cash,
                    redistVars >>

\* lines 335-350
UpSellProceeds ==
    /\ pc = "sell_proceeds"
    /\ sell_proceeds' = sell_proceeds_of(df, sell_list)
    /\ steps' = Append(steps, "EXECUTE_SELLS")
    /\ pc' = "available_cash"
    /\ UNCHANGED << envVars, rankVars, file, dry_run, extra_money, buy_list, df,
                    value_before, available_cash, allocations, existing_cash,
                    total_investment, remaining_cash, redistVars >>

\* lines 352-368
UpAvailableCash ==
    /\ pc = "available_cash"
    /\ \E budget \in NewPortfolioBudgets :
          LET base_cash == IF existing_cash = 0 /\ Len(df) = 0 THEN budget
                           ELSE existing_cash + sell_proceeds
          IN available_cash' = base_cash + extra_money
    /\ steps' = Append(steps, "COMPUTE_AVAILABLE_CASH")
    /\ pc' = "remove_sold"
    /\ UNCHANGED << envVars, rankVars, file, dry_run, extra_money, buy_list, df,
                    value_before, allocations, existing_cash, sell_proceeds,
                    total_investment, remaining_cash, redistVars >>

\* lines 370-373
UpRemoveSold ==
    /\ pc = "remove_sold"
    /\ df' = remove_sold(df, sell_list)
    /\ steps' = Append(steps, "REMOVE_SOLD")
    /\ pc' = "allocate"
    /\ UNCHANGED << envVars, rankVars, file, dry_run, extra_money, buy_list,
                    value_before, available_cash, allocations, existing_cash,
                    sell_proceeds, total_investment, remaining_cash, redistVars >>

\* lines 375-381; an exception leaves update_portfolio and ends the run (line 107)
UpAllocate ==
    /\ pc = "allocate"
    /\ LET result == IF buy_list # << >> THEN smart_allocate_cash(buy_list, available_cash)
                     ELSE [ raised |-> None, allocations |-> EmptyDict ]
       IN /\ allocations' = result.allocations
          /\ pc' = IF result.raised = None THEN "buys" ELSE "exit"
    /\ steps' = Append(steps, "ALLOCATE")
    /\ UNCHANGED << envVars, rankVars, file, dry_run, extra_money, buy_list, df,
                    value_before, available_cash, existing_cash, sell_proceeds,
                    total_investment, remaining_cash, redistVars >>

\* lines 383-436
UpBuys ==
    /\ pc = "buys"
    /\ LET done == execute_buys(buy_list, allocations, ColumnSymbol(df), 1,
                                [ df |-> df, total_investment |-> 0 ])
       IN /\ df' = done.df
          /\ total_investment' = done.total_investment
    /\ steps' = Append(steps, "EXECUTE_BUYS")
    /\ pc' = "save"
    /\ UNCHANGED << envVars, rankVars, file, dry_run, extra_money, buy_list,
                    value_before, available_cash, allocations, existing_cash,
                    sell_proceeds, remaining_cash, redistVars >>

\* UpSave leaving the first write of the file out
UpSave_no_write ==
    /\ pc = "save"
    /\ remaining_cash' = available_cash - total_investment
    /\ pc' = "redistribute"
    /\ UNCHANGED << envVars, rankVars, file, dry_run, extra_money, buy_list, df,
                    value_before, available_cash, allocations, existing_cash,
                    sell_proceeds, total_investment, redistVars, steps >>

\* lines 438-444
UpSave ==
    /\ pc = "save"
    /\ file' = Some(df)
    /\ remaining_cash' = available_cash - total_investment
    /\ steps' = Append(steps, "PERSIST")
    /\ pc' = "redistribute"
    /\ UNCHANGED << envVars, rankVars, dry_run, extra_money, buy_list, df,
                    value_before, available_cash, allocations, existing_cash,
                    sell_proceeds, total_investment, redistVars >>

\* the ledger with its CASH row set to `cash` (lines 452-457)
with_cash_row(rows, cash) ==
    IF rows_of(rows, "CASH") = << >> THEN Append(rows, Row("CASH", cash))
    ELSE set_units(rows, "CASH", cash)

\* lines 451-459, after redistribute_remaining_cash returned (line 449)
UpSetCash ==
    /\ pc = "redist_returned"
    /\ df' = with_cash_row(df, final_remaining_cash)
    /\ file' = Some(df')
    /\ steps' = Append(steps, "PERSIST")
    /\ pc' = "done"
    /\ UNCHANGED << envVars, rankVars, dry_run, extra_money, buy_list,
                    value_before, available_cash, allocations, existing_cash,
                    sell_proceeds, total_investment, remaining_cash, redistVars >>

UpdatePortfolio ==
    \/ UpLoad \/ UpSellProceeds \/ UpAvailableCash \/ UpRemoveSold \/ UpAllocate
    \/ UpBuys \/ UpSave \/ Redistribute \/ UpSetCash

(***************************************************************************)
(* run_algorithm                                                           *)
(***************************************************************************)
\* config.TOP_20_COUNT and config.TOP_40_COUNT (20 and 40), scaled to the universe
TOP_20_COUNT == 2
TOP_40_COUNT == 3

\* lines 61-74; an empty ranking ends the run (lines 65-67)
RunRank ==
    /\ pc = "run_algorithm"
    /\ sorted_stocks' = calculate_returns_for_all_stocks
    /\ top_40' = Take(sorted_stocks', TOP_40_COUNT)
    /\ top_20' = Take(sorted_stocks', TOP_20_COUNT)
    /\ steps' = Append(steps, "RANK_UNIVERSE")
    /\ pc' = IF sorted_stocks' = << >> THEN "exit" ELSE "load"
    /\ UNCHANGED << envVars, file, dry_run, extra_money, current_portfolio, buy_list,
                    sell_list, hold_list, df, value_before, available_cash, allocations,
                    existing_cash, sell_proceeds, total_investment, remaining_cash,
                    redistVars >>

\* lines 76-79
RunLoad ==
    /\ pc = "load"
    /\ current_portfolio' = load_current_portfolio
    /\ file' = file_after_load
    /\ steps' = Append(steps, "LOAD_PORTFOLIO")
    /\ pc' = "decide"
    /\ UNCHANGED << envVars, dry_run, extra_money, sorted_stocks, top_40, top_20,
                    buy_list, sell_list, hold_list, df, value_before, available_cash,
                    allocations, existing_cash, sell_proceeds, total_investment,
                    remaining_cash, redistVars >>

\* lines 81-96: the decision, then update_portfolio unless the run is a dry run
RunDecide ==
    /\ pc = "decide"
    /\ LET changes == calculate_portfolio_changes(current_portfolio, top_40, top_20)
       IN /\ buy_list' = changes.buy
          /\ sell_list' = changes.sell
          /\ hold_list' = changes.hold
    /\ steps' = Append(steps, "DECIDE")
    /\ pc' = IF dry_run THEN "done" ELSE "update_portfolio"
    /\ UNCHANGED << envVars, file, dry_run, extra_money, sorted_stocks, top_40, top_20,
                    current_portfolio, df, value_before, available_cash, allocations,
                    existing_cash, sell_proceeds, total_investment, remaining_cash,
                    redistVars >>

RunAlgorithm == RunRank \/ RunLoad \/ RunDecide \/ UpdatePortfolio

(***************************************************************************)
(* The rebalance cycle: one run of run_algorithm                           *)
(***************************************************************************)
Universe == << "TCS", "ZOMATO", "ACC", "ABB" >>

\* the close the price feed reports for a symbol when it reports one
ListPrice(symbol) ==
    CASE symbol = "TCS" -> 1500
      [] symbol = "ZOMATO" -> 400
      [] symbol = "ACC" -> 900
      [] OTHER -> 700

\* a symbol's feeds: a live price; no price and a 4-week return; neither
FeedStates == { "live", "estimate", "none" }
HeldUnits == { 2 }
CashBalances == { 2500, 6000 }
GainFeeds == { None, Some(Rat(1, 2)) }

\* the ledgers a portfolio file can hold: distinct symbols, whole positive units,
\* at most one CASH row
Ledgers(symbols) ==
    LET holdings == UNION { [ held -> HeldUnits ] : held \in SUBSET symbols }
        stock_rows(h) ==
            LET order == SelectSeq(Universe, LAMBDA x : x \in DOMAIN h)
            IN [ k \in DOMAIN order |-> Row(order[k], h[order[k]]) ]
    IN { stock_rows(h) : h \in holdings }
       \cup { Append(stock_rows(h), Row("CASH", c)) : h \in holdings, c \in CashBalances }

\* what a call has not computed yet
ZeroRank ==
    /\ sorted_stocks = << >> /\ top_40 = << >> /\ top_20 = << >>
    /\ current_portfolio = << >> /\ sell_list = {} /\ hold_list = {}
    /\ steps = << >>
ZeroUpdate ==
    /\ value_before = 0 /\ allocations = EmptyDict /\ existing_cash = 0
    /\ sell_proceeds = 0 /\ total_investment = 0
ZeroRedist ==
    /\ cash_to_redistribute = 0 /\ buyable_stocks = << >> /\ stock_idx = 0
    /\ bought_this_round = FALSE /\ purchases = << >> /\ final_remaining_cash = 0
ZeroCycle ==
    /\ ZeroRank /\ ZeroUpdate /\ ZeroRedist
    /\ buy_list = << >> /\ df = << >> /\ available_cash = 0 /\ remaining_cash = 0
    /\ file = None /\ dry_run = FALSE /\ extra_money = 0
ZeroUnits == call_symbol = "" /\ call_amount = RatInt(0) /\ units_and_price = << 0, 0 >>
ZeroCandles == window = << >> /\ candle_return = None /\ responses = EmptyDict
ZeroResolver ==
    /\ strategy_idx = 1 /\ attempt = 0 /\ fetches = << >> /\ outcome = ""
    /\ slept = << >> /\ latest_price = None
\* no get has just returned
NoGet == [ key |-> << >>, found |-> "", raised |-> "", value |-> None ]
ZeroCache ==
    /\ now = 0 /\ _cache_memory = EmptyDict /\ _cache_timestamps = EmptyDict
    /\ cache_files = EmptyDict /\ stored = EmptyDict
    /\ cached = NoGet
    /\ cleared = {}

Init ==
    /\ ZeroRank /\ ZeroUpdate /\ ZeroRedist
    /\ ZeroUnits /\ ZeroCandles /\ ZeroResolver /\ ZeroCache
    /\ buy_list = << >> /\ df = << >> /\ available_cash = 0 /\ remaining_cash = 0
    /\ pc = "run_algorithm"
    /\ nse200_df = Universe
    /\ \E feed \in [ Range(Universe) -> FeedStates ] :
          /\ price_feed = [ s \in Range(Universe) |->
                              IF feed[s] = "live" THEN Some(ListPrice(s)) ELSE None ]
          /\ returns_feed = [ s \in Range(Universe) |->
                                IF feed[s] = "estimate" THEN Some(Rat(0, 1)) ELSE None ]
    /\ gains_feed \in [ Range(Universe) -> GainFeeds ]
    /\ file \in { None } \cup { Some(rows) : rows \in Ledgers(Range(Universe)) }
    /\ dry_run \in BOOLEAN
    /\ extra_money = 0

Next == RunAlgorithm

Spec == Init /\ [][Next]_vars

(***************************************************************************)
(* smart_allocate_cash on its own: one call on drawn arguments             *)
(***************************************************************************)
MaxBuyLen == 3
AllocUniverse == << "A", "B", "C" >>
\* the symbols a buy list is drawn from: the universe's and one it does not hold
AllocSymbols == Range(AllocUniverse) \cup { "Q" }
AllocPrices == { 30, 50, 100 }
AllocCash == { 20, 30, 100, 180, 300, 1130 }

InitAlloc ==
    /\ ZeroRank /\ ZeroUpdate /\ ZeroRedist
    /\ ZeroUnits /\ ZeroCandles /\ ZeroResolver /\ ZeroCache
    /\ df = << >> /\ remaining_cash = 0
    /\ pc = "smart_allocate_cash"
    /\ nse200_df = AllocUniverse
    /\ price_feed \in [ Range(AllocUniverse) -> { None } \cup { Some(p) : p \in AllocPrices } ]
    /\ \E est \in SUBSET Range(AllocUniverse) :
          returns_feed = [ s \in Range(AllocUniverse) |->
                             IF s \in est /\ price_feed[s] = None THEN Some(Rat(0, 1))
                             ELSE None ]
    /\ gains_feed = [ s \in Range(AllocUniverse) |-> None ]
    /\ file = None
    /\ dry_run = FALSE
    /\ extra_money = 0
    /\ \E buy \in SeqsUpTo(AllocSymbols, MaxBuyLen), cash \in AllocCash :
          /\ buy_list = buy
          /\ available_cash = cash

\* smart_allocate_cash(buy_list, nse200_df, available_cash) returns or raises
AllocCall ==
    /\ pc = "smart_allocate_cash"
    /\ LET result == smart_allocate_cash(buy_list, available_cash)
       IN /\ allocations' = result.allocations
          /\ pc' = IF result.raised = None THEN "returned" ELSE "raised"
    /\ UNCHANGED << envVars, rankVars, file, dry_run, extra_money, buy_list, df,
                    value_before, available_cash, existing_cash, sell_proceeds,
                    total_investment, remaining_cash, redistVars, steps >>

NextAlloc == AllocCall

SpecAlloc == InitAlloc /\ [][NextAlloc]_vars

(***************************************************************************)
(* redistribute_remaining_cash on its own: one call on drawn arguments     *)
(***************************************************************************)
MaxRows == 3
RedistUniverse == << "X", "Y", "Z" >>
\* the symbols a ledger is drawn from: the universe's and one it no longer holds
RedistSymbols == Range(RedistUniverse) \cup { "OLD" }
RedistPrices == { 900, 1200 }
RedistCash == { 500, 1000, 1900, 2200, 3100, 5000 }

InitRedist ==
    /\ pc = "redistribute"
    /\ nse200_df = RedistUniverse
    /\ price_feed \in [ Range(RedistUniverse) -> { None } \cup { Some(p) : p \in RedistPrices } ]
    /\ returns_feed = [ s \in Range(RedistUniverse) |-> None ]
    /\ gains_feed = [ s \in Range(RedistUniverse) |-> None ]
    /\ file = None
    /\ dry_run = FALSE
    /\ extra_money = 0
    /\ ZeroRank /\ ZeroUpdate /\ ZeroRedist
    /\ ZeroUnits /\ ZeroCandles /\ ZeroResolver /\ ZeroCache
    /\ buy_list = << >> /\ available_cash = 0
    /\ \E held \in SeqsUpTo(RedistSymbols, MaxRows), cash \in RedistCash,
          cash_row \in BOOLEAN :
          /\ remaining_cash = cash
          /\ df = [ k \in DOMAIN held |-> Row(held[k], 1) ]
                  \o (IF cash_row THEN << Row("CASH", cash) >> ELSE << >>)

NextRedist == Redistribute

SpecRedist == InitRedist /\ [][NextRedist]_vars

\* the call runs on: a step of redistribute_remaining_cash that can be taken is taken
SpecRedistFair == SpecRedist /\ WF_vars(NextRedist)

(***************************************************************************)
(* calculate_units_to_buy on its own: one call on drawn arguments          *)
(***************************************************************************)
UnitsPrices == { 700, 1500 }
\* 4-week returns on both sides of the estimate's thresholds 0.5, 0.2 and -0.2
UnitsReturns ==
    { Rat(-3, 10), Rat(-1, 5), Rat(0, 1), Rat(1, 5), Rat(3, 10), Rat(1, 2), Rat(3, 5) }
UnitsAmounts == { RatInt(0), Rat(2999, 2), RatInt(1500), RatInt(5000) }

InitUnits ==
    /\ ZeroCycle /\ ZeroCandles /\ ZeroResolver /\ ZeroCache
    /\ pc = "calculate_units_to_buy"
    /\ nse200_df = Universe
    /\ \E p \in { None } \cup { Some(x) : x \in UnitsPrices } :
          price_feed = [ s \in Range(Universe) |-> p ]
    /\ \E r \in { None } \cup { Some(x) : x \in UnitsReturns } :
          returns_feed = [ s \in Range(Universe) |-> r ]
    /\ gains_feed = [ s \in Range(Universe) |-> None ]
    /\ call_symbol \in Range(Universe)
    /\ call_amount \in UnitsAmounts
    /\ units_and_price = << 0, 0 >>

\* calculate_units_to_buy(symbol, instkey, allocation_amount, use_fallback=True) returns
UnitsCall ==
    /\ pc = "calculate_units_to_buy"
    /\ units_and_price' = calculate_units_to_buy(call_symbol, call_amount)
    /\ pc' = "units_returned"
    /\ UNCHANGED << feedVars, cycleVars, call_symbol, call_amount, candleVars,
                    resolverVars, cacheVars >>

SpecUnits == InitUnits /\ [][UnitsCall]_vars

(***************************************************************************)
(* _process_candle_data on its own: one call on a drawn response           *)
(***************************************************************************)
MaxCandles == 3
\* the timestamps of the candles of a response: two midnights at +05:30 and an
\* instant later than both whose date is the first one's
Timestamps ==
    { [ day |-> 1, hour |-> 0, utcoffset |-> 330 ],
      [ day |-> 2, hour |-> 0, utcoffset |-> 330 ],
      [ day |-> 1, hour |-> 23, utcoffset |-> -60 ] }
Closes == { 0, 100, 150 }
Candle(dt, close) == << dt, close, close, close, close >>

InitCandles ==
    /\ ZeroCycle /\ ZeroUnits /\ ZeroResolver /\ ZeroCache
    /\ pc = "_process_candle_data"
    /\ nse200_df = << >> /\ price_feed = EmptyDict /\ returns_feed = EmptyDict
    /\ gains_feed = EmptyDict
    /\ window \in SeqsUpTo({ Candle(dt, c) : dt \in Timestamps, c \in Closes }, MaxCandles)
    /\ candle_return = None
    /\ responses = EmptyDict

\* _process_candle_data(response_data, instkey) returns
CandleCall ==
    /\ pc = "_process_candle_data"
    /\ candle_return' = _process_candle_data(window)
    /\ pc' = "processed"
    /\ UNCHANGED << feedVars, cycleVars, unitsVars, window, responses, resolverVars,
                    cacheVars >>

SpecCandles == InitCandles /\ [][CandleCall]_vars

(***************************************************************************)
(* calculate_returns_for_all_stocks on its own: one call on drawn          *)
(* responses of the historical-candle request                              *)
(***************************************************************************)
\* what the request of one symbol answers: no usable response (an HTTP error, an
\* API status other than success, an exception, the retries used up), or the candles
\* of a successful response: none, a zero earliest close, a gain, a loss, no change
RankResponses ==
    LET monday == [ day |-> 1, hour |-> 0, utcoffset |-> 330 ]
        tuesday == [ day |-> 2, hour |-> 0, utcoffset |-> 330 ]
    IN { None,
         Some(<< >>),
         Some(<< Candle(tuesday, 100), Candle(monday, 0) >>),
         Some(<< Candle(tuesday, 150), Candle(monday, 100) >>),
         Some(<< Candle(monday, 100), Candle(tuesday, 50) >>),
         Some(<< Candle(monday, 100), Candle(tuesday, 100) >>) }

\* get_returns (lines 56-88) on the response of the request: Optional return
returns_of_response(response) ==
    IF response = None THEN None ELSE _process_candle_data(response[1])

InitRank ==
    /\ ZeroCycle /\ ZeroUnits /\ ZeroResolver /\ ZeroCache
    /\ pc = "calculate_returns_for_all_stocks"
    /\ nse200_df = Universe
    /\ price_feed = [ s \in Range(Universe) |-> None ]
    /\ returns_feed = [ s \in Range(Universe) |-> None ]
    /\ responses \in [ Range(Universe) -> RankResponses ]
    /\ gains_feed = [ s \in Range(Universe) |-> returns_of_response(responses[s]) ]
    /\ window = << >> /\ candle_return = None

\* calculate_returns_for_all_stocks(weeks) returns
RankCall ==
    /\ pc = "calculate_returns_for_all_stocks"
    /\ sorted_stocks' = calculate_returns_for_all_stocks
    /\ pc' = "ranked"
    /\ UNCHANGED << feedVars, unitsVars, candleVars, resolverVars, cacheVars,
                    file, dry_run, extra_money, top_40, top_20, current_portfolio,
                    sell_list, hold_list, buy_list, df, value_before, available_cash,
                    allocations, existing_cash, sell_proceeds, total_investment,
                    remaining_cash, redistVars, steps >>

SpecRank == InitRank /\ [][RankCall]_vars

(***************************************************************************)
(* get_current_price, one action per request                               *)
(***************************************************************************)
strategies ==
    << [ interval |-> "day", days_back |-> 10 ],
       [ interval |-> "day", days_back |-> 30 ],
       [ interval |-> "month", days_back |-> 90 ] >>
max_retries == 3

\* what requests.get and the reading of its response come to: status 429; another
\* status than 200; an API status other than success; a RequestException; another
\* exception; a successful response and its candles
FetchOutcomes ==
    { [ kind |-> k, candles |-> << >> ] :
        k \in { "429", "http_error", "api_error", "request_exception", "exception" } }
    \cup { [ kind |-> "success", candles |-> w ] :
             w \in SeqsUpTo({ Candle(dt, c) : dt \in Timestamps, c \in Closes \ { 0 } },
                            MaxCandles) }

InitPrice ==
    /\ ZeroCycle /\ ZeroUnits /\ ZeroCandles /\ ZeroCache /\ ZeroResolver
    /\ pc = "get_current_price"
    /\ nse200_df = << >> /\ price_feed = EmptyDict /\ returns_feed = EmptyDict
    /\ gains_feed = EmptyDict

\* GcpRequest waiting one second after a rate-limit response, whatever the attempt
GcpRequest_fixed_wait ==
    /\ pc = "get_current_price"
    /\ \E o \in FetchOutcomes :
          LET last_attempt == attempt + 1 = max_retries
              backoff == IF o.kind \in { "429", "request_exception" }
                         THEN << RatInt(1) >> ELSE << >>
          IN /\ outcome' = o.kind
             /\ fetches' = Append(fetches, [ strategy |-> strategies[strategy_idx],
                                             candles |-> o.candles ])
             /\ IF o.kind = "success" /\ o.candles # << >>
                THEN /\ latest_price' = Some(sorted_by_datesort(o.candles)[1][5])
                     /\ slept' = << >>
                     /\ pc' = "price_returned"
                     /\ UNCHANGED << strategy_idx, attempt >>
                ELSE /\ latest_price' = None
                     /\ slept' = backoff \o (IF last_attempt THEN << Rat(1, 2) >> ELSE << >>)
                     /\ attempt' = IF last_attempt THEN 0 ELSE attempt + 1
                     /\ strategy_idx' = IF last_attempt THEN strategy_idx + 1
                                        ELSE strategy_idx
                     /\ pc' = IF last_attempt /\ strategy_idx = Len(strategies)
                              THEN "price_returned" ELSE pc
    /\ UNCHANGED << feedVars, cycleVars, unitsVars, candleVars, cacheVars >>

\* lines 576-621: one request of the loop over attempts, what follows it up to the
\* next request, and the return (line 607 or line 627)
GcpRequest ==
    /\ pc = "get_current_price"
    /\ \E o \in FetchOutcomes :
          LET last_attempt == attempt + 1 = max_retries
              backoff == IF o.kind \in { "429", "request_exception" }
                         THEN << RatInt(2 ^ attempt) >> ELSE << >>
          IN /\ outcome' = o.kind
             /\ fetches' = Append(fetches, [ strategy |-> strategies[strategy_idx],
                                             candles |-> o.candles ])
             /\ IF o.kind = "success" /\ o.candles # << >>
                THEN /\ latest_price' = Some(sorted_by_datesort(o.candles)[1][5])
                     /\ slept' = << >>
                     /\ pc' = "price_returned"
                     /\ UNCHANGED << strategy_idx, attempt >>
                ELSE /\ latest_price' = None
                     /\ slept' = backoff \o (IF last_attempt THEN << Rat(1, 2) >> ELSE << >>)
                     /\ attempt' = IF last_attempt THEN 0 ELSE attempt + 1
                     /\ strategy_idx' = IF last_attempt THEN strategy_idx + 1
                                        ELSE strategy_idx
                     /\ pc' = IF last_attempt /\ strategy_idx = Len(strategies)
                              THEN "price_returned" ELSE pc
    /\ UNCHANGED << feedVars, cycleVars, unitsVars, candleVars, cacheVars >>

SpecPrice == InitPrice /\ [][GcpRequest]_vars

(***************************************************************************)
(* APICache (src/cache.py).  The cache directory is a function from cache  *)
(* keys to the content of <key>.json: an entry written by set, or what a   *)
(* damaged file reads as.                                                  *)
(***************************************************************************)
\* ttl_hours * 3600, in the model's unit of time
ttl_seconds == 1
MaxTime == 3

\* hashlib.md5 of the JSON of the url and of `params or {}`: one key per request
_get_cache_key(url, params) == << url, params >>
CacheRequests == { [ url |-> "u1", params |-> EmptyDict ],
                   [ url |-> "u1", params |-> [ interval |-> "month" ] ] }
CacheResponses == { "r1", "r2" }

\* a file that is not an entry: json.load raises JSONDecodeError (cut short, empty);
\* reading it raises UnicodeDecodeError (bytes that are not UTF-8); it is JSON and
\* not an object, so that cache_data.get raises AttributeError
DamagedKinds == { "malformed", "undecodable", "not_object" }
Damaged(kind) == [ kind |-> kind, timestamp |-> 0, response |-> "" ]
\* the exception reading a file of this kind raises and no except clause catches
uncaught(kind) ==
    CASE kind = "undecodable" -> "UnicodeDecodeError"
      [] kind = "not_object" -> "AttributeError"
      [] OTHER -> ""

DictRemove(d, k) == [ x \in (DOMAIN d) \ { k } |-> d[x] ]

RECURSIVE _load_cache_metadata(_, _, _)
\* _load_cache_metadata from position k of the directory listing on:
\* st = [timestamps, files, raised]
_load_cache_metadata(listing, k, st) ==
    IF k > Len(listing) \/ st.raised # "" THEN st
    ELSE LET cache_key == listing[k]
             cache_data == st.files[cache_key]
         IN _load_cache_metadata(listing, k + 1,
              IF cache_data.kind = "entry"
              THEN IF now - cache_data.timestamp <= ttl_seconds
                   THEN [ st EXCEPT !.timestamps =
                            DictSet(st.timestamps, cache_key, cache_data.timestamp) ]
                   ELSE [ st EXCEPT !.files = DictRemove(st.files, cache_key) ]
              ELSE IF cache_data.kind = "malformed"
              THEN [ st EXCEPT !.files = DictRemove(st.files, cache_key) ]
              ELSE [ st EXCEPT !.raised = uncaught(cache_data.kind) ])

InitCache ==
    /\ ZeroCycle /\ ZeroUnits /\ ZeroCandles /\ ZeroResolver /\ ZeroCache
    /\ pc = "cache_ready"
    /\ nse200_df = << >> /\ price_feed = EmptyDict /\ returns_feed = EmptyDict
    /\ gains_feed = EmptyDict

\* APICache.__init__ (lines 27-38) in a new process, on the directory as it is; the
\* files are read in the order os.listdir gives them
CacheStart ==
    /\ \E listing \in { l \in SeqsUpTo(DOMAIN cache_files, Cardinality(DOMAIN cache_files)) :
                           Len(l) = Cardinality(DOMAIN cache_files) } :
          LET loaded == _load_cache_metadata(listing, 1,
                           [ timestamps |-> EmptyDict, files |-> cache_files, raised |-> "" ])
          IN /\ _cache_timestamps' = loaded.timestamps
             /\ cache_files' = loaded.files
             /\ pc' = IF loaded.raised = "" THEN "cache_ready" ELSE "cache_failed"
    /\ _cache_memory' = EmptyDict
    /\ cached' = NoGet
    /\ UNCHANGED << feedVars, cycleVars, unitsVars, candleVars, resolverVars, now, stored,
                    cleared >>

\* APICache.get(url, params) (lines 100-169)
CacheGet ==
    /\ pc = "cache_ready"
    /\ \E request \in CacheRequests :
          LET cache_key == _get_cache_key(request.url, request.params)
              found == IF cache_key \in DOMAIN cache_files
                       THEN cache_files[cache_key].kind ELSE "absent"
              in_memory == cache_key \in DOMAIN _cache_memory
              memory_time == IF cache_key \in DOMAIN _cache_timestamps
                             THEN _cache_timestamps[cache_key] ELSE 0
              result(raised, value) ==
                  cached' = [ key |-> cache_key, found |-> found, raised |-> raised,
                              value |-> value ]
          IN IF in_memory /\ now - memory_time <= ttl_seconds
             THEN \* lines 114-121: the fast path
                  /\ result("", Some(_cache_memory[cache_key]))
                  /\ UNCHANGED << _cache_memory, _cache_timestamps, cache_files >>
             ELSE IF in_memory /\ cache_key \notin DOMAIN _cache_timestamps
             THEN \* line 125 deletes a key that is not there
                  /\ result("KeyError", None)
                  /\ _cache_memory' = DictRemove(_cache_memory, cache_key)
                  /\ UNCHANGED << _cache_timestamps, cache_files >>
             ELSE IF in_memory \/ cache_key \notin DOMAIN _cache_timestamps
             THEN \* lines 122-129: expired in memory, or not tracked
                  /\ result("", None)
                  /\ _cache_memory' = DictRemove(_cache_memory, cache_key)
                  /\ _cache_timestamps' = DictRemove(_cache_timestamps, cache_key)
                  /\ UNCHANGED cache_files
             ELSE IF now - _cache_timestamps[cache_key] > ttl_seconds
                     \/ found \in { "absent", "malformed" }
             THEN \* lines 134-142: expired; lines 161-169: the file is gone or is
                  \* not JSON
                  /\ result("", None)
                  /\ _cache_timestamps' = DictRemove(_cache_timestamps, cache_key)
                  /\ cache_files' = DictRemove(cache_files, cache_key)
                  /\ UNCHANGED _cache_memory
             ELSE IF found = "entry"
             THEN \* lines 147-159
                  /\ result("", Some(cache_files[cache_key].response))
                  /\ _cache_memory' =
                        DictSet(_cache_memory, cache_key, cache_files[cache_key].response)
                  /\ UNCHANGED << _cache_timestamps, cache_files >>
             ELSE \* the read raises an exception line 161 does not name
                  /\ result(uncaught(found), None)
                  /\ UNCHANGED << _cache_memory, _cache_timestamps, cache_files >>
    /\ UNCHANGED << pc, feedVars, cycleVars, unitsVars, candleVars, resolverVars, now,
                    stored, cleared >>

\* CacheSet leaving the timestamp map as it is
CacheSet_no_timestamp ==
    /\ pc = "cache_ready"
    /\ \E request \in CacheRequests, response_data \in CacheResponses, written \in BOOLEAN :
          LET cache_key == _get_cache_key(request.url, request.params)
          IN IF written
             THEN /\ cache_files' = DictSet(cache_files, cache_key,
                        [ kind |-> "entry", timestamp |-> now, response |-> response_data ])
                  /\ _cache_memory' = DictSet(_cache_memory, cache_key, response_data)
                  /\ stored' = DictSet(stored, cache_key,
                        [ response |-> response_data, time |-> now ])
                  /\ cleared' = cleared \ { cache_key }
                  /\ UNCHANGED _cache_timestamps
             ELSE /\ cache_files' = DictSet(cache_files, cache_key, Damaged("malformed"))
                  /\ UNCHANGED << _cache_memory, _cache_timestamps, stored, cleared >>
    /\ cached' = NoGet
    /\ UNCHANGED << pc, feedVars, cycleVars, unitsVars, candleVars, resolverVars, now >>

\* APICache.set(url, response_data, params) (lines 171-204); when the write fails
\* part-way the file is left cut short and the maps are not updated
CacheSet ==
    /\ pc = "cache_ready"
    /\ \E request \in CacheRequests, response_data \in CacheResponses, written \in BOOLEAN :
          LET cache_key == _get_cache_key(request.url, request.params)
          IN IF written
             THEN /\ cache_files' = DictSet(cache_files, cache_key,
                        [ kind |-> "entry", timestamp |-> now, response |-> response_data ])
                  /\ _cache_memory' = DictSet(_cache_memory, cache_key, response_data)
                  /\ _cache_timestamps' = DictSet(_cache_timestamps, cache_key, now)
                  /\ stored' = DictSet(stored, cache_key,
                        [ response |-> response_data, time |-> now ])
                  /\ cleared' = cleared \ { cache_key }
             ELSE /\ cache_files' = DictSet(cache_files, cache_key, Damaged("malformed"))
                  /\ UNCHANGED << _cache_memory, _cache_timestamps, stored, cleared >>
    /\ cached' = NoGet
    /\ UNCHANGED << pc, feedVars, cycleVars, unitsVars, candleVars, resolverVars, now >>

\* time passes
CacheTick ==
    /\ now < MaxTime
    /\ now' = now + 1
    /\ cached' = NoGet
    /\ UNCHANGED << pc, feedVars, cycleVars, unitsVars, candleVars, resolverVars,
                    _cache_memory, _cache_timestamps, cache_files, stored, cleared >>

\* a file of the cache directory is damaged, or deleted, from outside the program
CacheDamage ==
    /\ \E cache_key \in DOMAIN cache_files, kind \in DamagedKinds \cup { "absent" } :
          cache_files' = IF kind = "absent" THEN DictRemove(cache_files, cache_key)
                         ELSE DictSet(cache_files, cache_key, Damaged(kind))
    /\ cached' = NoGet
    /\ UNCHANGED << pc, feedVars, cycleVars, unitsVars, candleVars, resolverVars, now,
                    _cache_memory, _cache_timestamps, stored, cleared >>

RECURSIVE clear_expired(_, _, _)
\* clear_expired from position k of the directory listing on: st = [files, raised]
clear_expired(listing, k, st) ==
    IF k > Len(listing) \/ st.raised # "" THEN st
    ELSE LET cache_key == listing[k]
             cache_data == st.files[cache_key]
         IN clear_expired(listing, k + 1,
              IF cache_data.kind = "entry"
              THEN IF now - cache_data.timestamp > ttl_seconds
                   THEN [ st EXCEPT !.files = DictRemove(st.files, cache_key) ]
                   ELSE st
              ELSE IF cache_data.kind = "malformed"
              THEN [ st EXCEPT !.files = DictRemove(st.files, cache_key) ]
              ELSE [ st EXCEPT !.raised = uncaught(cache_data.kind) ])

\* the orders os.listdir can give the files of the cache directory in
Listings ==
    { l \in SeqsUpTo(DOMAIN cache_files, Cardinality(DOMAIN cache_files)) :
        Len(l) = Cardinality(DOMAIN cache_files) }

\* APICache.clear_expired() (lines 206-243): it removes files and leaves the maps; a
\* file whose reading raises an exception line 238 does not name ends it
CacheClearExpired ==
    /\ pc = "cache_ready"
    /\ \E listing \in Listings :
          cache_files' = clear_expired(listing, 1, [ files |-> cache_files,
                                                    raised |-> "" ]).files
    /\ cached' = NoGet
    /\ UNCHANGED << pc, feedVars, cycleVars, unitsVars, candleVars, resolverVars, now,
                    _cache_memory, _cache_timestamps, stored, cleared >>

\* APICache.clear_all() (lines 245-266): it removes every file and leaves the maps
CacheClearAll ==
    /\ pc = "cache_ready"
    /\ cache_files' = EmptyDict
    /\ cleared' = { _get_cache_key(request.url, request.params) : request \in CacheRequests }
    /\ cached' = NoGet
    /\ UNCHANGED << pc, feedVars, cycleVars, unitsVars, candleVars, resolverVars, now,
                    _cache_memory, _cache_timestamps, stored >>

NextCache ==
    \/ CacheStart \/ CacheGet \/ CacheSet \/ CacheTick \/ CacheDamage
    \/ CacheClearExpired \/ CacheClearAll

SpecCache == InitCache /\ [][NextCache]_vars

(***************************************************************************)
(* Properties of smart_allocate_cash (SpecAlloc)                           *)
(***************************************************************************)
AllocReturned == pc = "returned"
PricedInBuyList == { s \in Range(buy_list) : in_nse200(s) /\ price_used(s) # None }
\* the state smart_allocate_cash's first phase ends in, for the call's arguments
Phase1 ==
    guarantee_phase(buy_list, stock_prices_of(buy_list, available_cash), 1,
                    [ allocations |-> EmptyDict, remaining_cash |-> available_cash,
                      affordable_stocks |-> << >> ])

\* C1: whatever the buy list, the prices (resolved, estimated or missing) and the
\* cash, the amounts smart_allocate_cash returns sum to at most available_cash.
C1_AllocationWithinCash ==
    AllocReturned => RatLE(TotalAllocated(allocations), RatInt(available_cash))

\* C1's case: a returned allocation over a buy list with a symbol that has no price,
\* where both phases gave money and all the cash is allocated.
C1_Witness ==
    /\ AllocReturned
    /\ Range(buy_list) \ PricedInBuyList # {}
    /\ PricedInBuyList # {}
    /\ Cardinality(DOMAIN allocations) >= 2
    /\ Phase1.remaining_cash > 0
    /\ TotalAllocated(allocations) = RatInt(available_cash)

\* C2: smart_allocate_cash called with an empty buy list returns the empty mapping
\* and does not fail.
C2_EmptyBuyListReturnsEmpty ==
    (pc # "smart_allocate_cash" /\ buy_list = << >>)
        => (pc = "returned" /\ allocations = EmptyDict)

\* C7: when every symbol of a non-empty buy list has a price and the cash is at least
\* the cheapest of them, some symbol gets a strictly positive amount.
C7_SomeSymbolFunded ==
    ( /\ AllocReturned
      /\ buy_list # << >>
      /\ PricedInBuyList = Range(buy_list)
      /\ \E s \in Range(buy_list) : price_used(s)[1] <= available_cash )
        => \E s \in DOMAIN allocations : RatLT(RatInt(0), allocations[s])

\* C7's case: the best-ranked symbol is too expensive for the cash and a later,
\* cheaper one is funded.
C7_Witness ==
    /\ AllocReturned
    /\ Len(buy_list) >= 2
    /\ PricedInBuyList = Range(buy_list)
    /\ price_used(buy_list[1])[1] > available_cash
    /\ \E s \in DOMAIN allocations : RatLT(RatInt(0), allocations[s])

\* the call of the worked example: [A, B, C] at 100, 50, 30 with 300 of cash
AllocExample ==
    /\ buy_list = << "A", "B", "C" >>
    /\ price_feed = [ s \in Range(AllocUniverse) |->
                        Some(CASE s = "A" -> 100 [] s = "B" -> 50 [] OTHER -> 30) ]
    /\ available_cash = 300

\* C8 as amended: in the worked example phase 1 allocates 180 and leaves 120, which
\* the weights 20 : 16 : 12.8 split as 3000/61, 2400/61 and 1920/61, so that
\* A = 9100/61 (about 149.18), B = 5450/61 (about 89.34) and C = 3750/61 (about 61.48).
C8_ExampleAllocation ==
    (AllocExample /\ AllocReturned)
        => /\ TotalAllocated(Phase1.allocations) = RatInt(180)
           /\ Phase1.remaining_cash = 120
           /\ allocations = [ s \in { "A", "B", "C" } |->
                                CASE s = "A" -> << 9100, 61 >>
                                  [] s = "B" -> << 5450, 61 >>
                                  [] OTHER -> << 3750, 61 >> ]

\* C8's case: the call of the worked example has returned.
C8_Witness == AllocExample /\ AllocReturned /\ DOMAIN allocations = { "A", "B", "C" }

\* C8 as stated: phase 1 allocates 180 and leaves 120, and the final allocations are
\* A = 162.5 and B = 100.
C8_ExampleAsStated ==
    (AllocExample /\ AllocReturned)
        => /\ TotalAllocated(Phase1.allocations) = RatInt(180)
           /\ Phase1.remaining_cash = 120
           /\ allocations["A"] = Rat(325, 2)
           /\ allocations["B"] = RatInt(100)

RECURSIVE GuaranteedBefore(_)
\* the prices of the symbols phase 1 funded among the first k - 1 of the buy list
GuaranteedBefore(k) ==
    IF k <= 1 THEN 0
    ELSE GuaranteedBefore(k - 1)
         + (IF buy_list[k - 1] \in DOMAIN Phase1.allocations
            THEN price_used(buy_list[k - 1])[1] ELSE 0)

\* C20: in a call where some symbol has a price, phase 1 walks the buy list in order
\* with a remainder that starts at available_cash: a priced symbol whose unit price is
\* at most the remainder left by the symbols funded before it is allocated exactly
\* that price, any other symbol is allocated nothing, the remainder phase 1 ends with
\* is available_cash less the funded prices, and a symbol phase 1 passed over is not
\* in the returned allocations either.
C20_GuaranteePhase ==
    (AllocReturned /\ PricedInBuyList # {})
        => /\ \A k \in DOMAIN buy_list :
                 LET s == buy_list[k]
                     left == available_cash - GuaranteedBefore(k)
                 IN IF s \in PricedInBuyList /\ price_used(s)[1] <= left
                    THEN /\ s \in DOMAIN Phase1.allocations
                         /\ Phase1.allocations[s] = RatInt(price_used(s)[1])
                    ELSE s \notin DOMAIN Phase1.allocations
           /\ Phase1.remaining_cash = available_cash - GuaranteedBefore(Len(buy_list) + 1)
           /\ DOMAIN allocations = DOMAIN Phase1.allocations
           /\ \A s \in DOMAIN allocations : RatLE(Phase1.allocations[s], allocations[s])

\* C20's case: a symbol that the whole cash could pay is too expensive for what the
\* symbols before it left, gets nothing, and a cheaper symbol after it is funded.
C20_Witness ==
    /\ AllocReturned
    /\ \E k, j \in DOMAIN buy_list :
          /\ k < j
          /\ buy_list[k] \in PricedInBuyList
          /\ price_used(buy_list[k])[1] <= available_cash
          /\ price_used(buy_list[k])[1] > available_cash - GuaranteedBefore(k)
          /\ buy_list[k] \notin DOMAIN allocations
          /\ buy_list[j] \in DOMAIN allocations

\* the symbols phase 1 funded, in the buy list's (rank) order
FundedInRankOrder == SelectSeq(buy_list, LAMBDA s : s \in DOMAIN Phase1.allocations)
\* 20 * 0.8^i = 20 * 4^i / 5^i
StatedWeight(i) == Rat(20 * 4 ^ i, 5 ^ i)
\* what phase 2 added to a symbol phase 1 funded
Phase2Addition(s) == RatSub(allocations[s], Phase1.allocations[s])

\* C21 as amended: the i-th (from 0) of the symbols phase 1 funded, in rank order, has
\* weight 20 * 0.8^i and receives on top of its phase-1 amount weight_i / sum of the
\* weights of the cash left after phase 1; a better-ranked funded symbol has the
\* larger weight, and the larger addition when phase 1 left cash: when it left none
\* phase 2 is skipped and every addition is 0.
C21_WeightedRemainder ==
    (AllocReturned /\ PricedInBuyList # {})
        => LET funded == FundedInRankOrder
               left == Phase1.remaining_cash
               weight == [ k \in DOMAIN funded |-> StatedWeight(k - 1) ]
               total == RatSum(weight, DOMAIN funded)
           IN /\ \A k \in DOMAIN funded :
                    Phase2Addition(funded[k])
                       = RatMul(RatDiv(weight[k], total), RatInt(left))
              /\ \A i, j \in DOMAIN funded :
                    i < j => /\ RatLT(weight[j], weight[i])
                             /\ IF left > 0
                                THEN RatLT(Phase2Addition(funded[j]),
                                           Phase2Addition(funded[i]))
                                ELSE Phase2Addition(funded[j]) = Phase2Addition(funded[i])

\* C21's case: phase 1 passed over a symbol (so that positions among the funded differ
\* from positions in the buy list), funded two others and left cash that phase 2 spread.
C21_Witness ==
    /\ AllocReturned
    /\ PricedInBuyList # {}
    /\ Len(FundedInRankOrder) = 2
    /\ buy_list[1] \notin DOMAIN allocations
    /\ Phase1.remaining_cash > 0
    /\ RatLT(Phase2Addition(FundedInRankOrder[2]), Phase2Addition(FundedInRankOrder[1]))

\* C21 as stated: of two symbols phase 1 funded, the better ranked has the larger
\* weight and the larger phase-2 addition.
C21_AdditionAsStated ==
    (AllocReturned /\ PricedInBuyList # {})
        => \A i, j \in DOMAIN FundedInRankOrder :
              i < j => /\ RatLT(StatedWeight(j - 1), StatedWeight(i - 1))
                       /\ RatLT(Phase2Addition(FundedInRankOrder[j]),
                                Phase2Addition(FundedInRankOrder[i]))

(***************************************************************************)
(* Properties of redistribute_remaining_cash (SpecRedist)                  *)
(***************************************************************************)
RedistReturned == pc = "redist_returned"
\* the prices of the positions held in df: real symbols of the universe with a price
HeldPrices ==
    { get_current_price(df[k].Symbol)[1] :
        k \in { j \in DOMAIN df : /\ df[j].Symbol # "CASH"
                                  /\ in_nse200(df[j].Symbol)
                                  /\ get_current_price(df[j].Symbol) # None } }

\* C3 as amended: when redistribution returns, either the cash it returns is at most
\* the threshold, or what it returns above the threshold (the threshold is kept as a
\* reserve) is strictly less than the price of every held position that has a price.
C3_NothingAffordableAboveReserve ==
    RedistReturned
        => \/ final_remaining_cash <= min_cash_threshold
           \/ \A p \in HeldPrices : final_remaining_cash - min_cash_threshold < p

\* C3's case: redistribution bought units and returned with more cash than the
\* threshold and than the price of a held position.
C3_Witness ==
    /\ RedistReturned
    /\ purchases # << >>
    /\ final_remaining_cash > min_cash_threshold
    /\ \E p \in HeldPrices : final_remaining_cash >= p

\* C3 as stated: when redistribution returns, the remaining cash is strictly less
\* than the price of every held position, or it is at most the threshold.
C3_AsStated ==
    RedistReturned
        => \/ \A p \in HeldPrices : final_remaining_cash < p
           \/ final_remaining_cash <= min_cash_threshold

\* the call of the worked example: cash 5000, positions X at 1200 and Y at 900
RedistExample ==
    /\ remaining_cash = 5000
    /\ [ k \in DOMAIN df |-> df[k].Symbol ] = << "X", "Y" >>
    /\ price_feed["X"] = Some(1200)
    /\ price_feed["Y"] = Some(900)

\* C9 as amended: in the worked example the threshold of 1000 is set aside first and
\* the cheaper position is bought first: one unit of Y leaving 4100, one of X leaving
\* 2900, then Y leaving 2000 and Y again leaving 1100, where the 100 above the
\* threshold no longer buys a unit; redistribution returns 1100.
C9_ExampleRedistribution ==
    (RedistExample /\ RedistReturned)
        => /\ purchases = << [ symbol |-> "Y", left |-> 4100 ],
                             [ symbol |-> "X", left |-> 2900 ],
                             [ symbol |-> "Y", left |-> 2000 ],
                             [ symbol |-> "Y", left |-> 1100 ] >>
           /\ final_remaining_cash = 1100

\* C9's case: the call of the worked example has returned after buying units.
C9_Witness == RedistExample /\ RedistReturned /\ Len(purchases) >= 2

\* C9 as stated: the first unit bought is X's, leaving 3800, the second is Y's,
\* leaving 2900, and the cash returned is below 900.
C9_ExampleAsStated ==
    (RedistExample /\ RedistReturned)
        => /\ Len(purchases) >= 2
           /\ purchases[1] = [ symbol |-> "X", left |-> 3800 ]
           /\ purchases[2] = [ symbol |-> "Y", left |-> 2900 ]
           /\ final_remaining_cash < 900

\* the for loop is at a position of buyable_stocks
InPass == pc = "redist_for" /\ stock_idx <= Len(buyable_stocks)
\* the non-CASH rows of df whose symbol has a price that is not 0
PricedPositions ==
    { k \in DOMAIN df : /\ df[k].Symbol # "CASH"
                        /\ in_nse200(df[k].Symbol)
                        /\ get_current_price(df[k].Symbol) # None
                        /\ get_current_price(df[k].Symbol)[1] # 0 }
\* some position's price is at most the cash still to redistribute
SomePositionFits ==
    \E k \in PricedPositions : get_current_price(df[k].Symbol)[1] <= cash_to_redistribute

\* the list a pass scans: the positions whose price fitted the cash to redistribute at
\* the start, once each, at their price, the prices never decreasing along it
C22_ScanOrder ==
    /\ \A i, j \in DOMAIN buyable_stocks :
          i < j => /\ buyable_stocks[i].price <= buyable_stocks[j].price
                   /\ buyable_stocks[i].symbol # buyable_stocks[j].symbol
    /\ \A i \in DOMAIN buyable_stocks :
          \E k \in PricedPositions :
             /\ df[k].Symbol = buyable_stocks[i].symbol
             /\ get_current_price(df[k].Symbol)[1] = buyable_stocks[i].price
    /\ \A k \in PricedPositions :
          get_current_price(df[k].Symbol)[1] <= cash_to_redistribute
             => \E i \in DOMAIN buyable_stocks : buyable_stocks[i].symbol = df[k].Symbol

\* one step of redistribution as C22 describes it
C22_Step ==
    /\ pc \in { "redist_while", "redist_for", "redist_finish" } => C22_ScanOrder
    /\ IF InPass
       THEN LET stock == buyable_stocks[stock_idx]
                fits == stock.price <= cash_to_redistribute
            IN /\ df' = [ k \in DOMAIN df |->
                            IF fits /\ df[k].Symbol = stock.symbol
                            THEN Row(df[k].Symbol, df[k].Units + 1) ELSE df[k] ]
               /\ cash_to_redistribute'
                     = cash_to_redistribute - (IF fits THEN stock.price ELSE 0)
               /\ stock_idx' = stock_idx + 1
               /\ buyable_stocks' = buyable_stocks
       ELSE /\ df' = df
            /\ pc # "redistribute" => /\ cash_to_redistribute' = cash_to_redistribute
                                      /\ buyable_stocks' = buyable_stocks
    /\ pc = "redist_while"
          => IF SomePositionFits THEN pc' = "redist_for" /\ stock_idx' = 1
             ELSE pc' = "redist_finish"
    /\ (pc = "redist_for" /\ ~InPass)
          => \/ pc' = "redist_while"
             \/ pc' = "redist_finish" /\ ~SomePositionFits
    /\ pc = "redist_finish" => ~SomePositionFits

\* C22: redistribution scans the non-CASH positions that have a price, in ascending
\* price order; a step of a pass is at the next position of the scan and adds exactly
\* one unit to it, paying its price, when that price is at most the cash still to
\* redistribute, and changes nothing otherwise, so that a pass adds at most one unit
\* to each position; a pass is started as long as some position fits, and the loop is
\* left only when none does.
C22_RoundRobinPasses == [][C22_Step]_vars

\* C22's case: redistribution returned after a pass that bought the cheaper position
\* and passed over a dearer one whose price no longer fitted, and after another pass.
C22_Witness ==
    /\ RedistReturned
    /\ Len(buyable_stocks) >= 2
    /\ \E i \in DOMAIN purchases :
          /\ i > 1
          /\ i < Len(purchases)
          /\ purchases[i].symbol = purchases[i + 1].symbol
          /\ purchases[i].symbol # buyable_stocks[Len(buyable_stocks)].symbol

\* the early return of line 770: the starting cash is at or below the threshold
C23_EarlyReturn ==
    (pc = "redistribute" /\ remaining_cash <= min_cash_threshold)
        => /\ pc' = "redist_returned"
           /\ df' = df
           /\ final_remaining_cash' = remaining_cash

\* C23: every call of redistribute_remaining_cash returns, whatever the ledger, the
\* (positive) prices and the starting cash; the loop is left only when the price of no
\* position it scans fits the cash still to redistribute; and a call whose starting
\* cash is at or below the threshold returns at once with the ledger unchanged and
\* the cash it was given.
C23_Terminates ==
    /\ <>RedistReturned
    /\ [](pc = "redist_finish"
             => \A k \in DOMAIN buyable_stocks :
                   buyable_stocks[k].price > cash_to_redistribute)
    /\ [][C23_EarlyReturn]_vars

\* C23's case: a call that went through three passes or more and returned, the cash
\* it returns above the threshold.
C23_Witness ==
    /\ RedistReturned
    /\ Len(purchases) >= 3
    /\ purchases[1].symbol = purchases[Len(purchases)].symbol
    /\ final_remaining_cash > min_cash_threshold
    /\ final_remaining_cash < remaining_cash

\* the units redistribution added to the position of row k (a call starts with one
\* unit in every position)
AddedUnits(k) == df[k].Units - 1
PositionPrice(k) == get_current_price(df[k].Symbol)[1]

RECURSIVE AddedCost(_)
\* the sum over the priced positions of S of added units * price
AddedCost(S) ==
    IF S = {} THEN 0
    ELSE LET k == CHOOSE x \in S : TRUE
         IN AddedUnits(k) * PositionPrice(k) + AddedCost(S \ {k})

\* C29 as amended: when redistribution returns, of two positions with a price the
\* strictly cheaper one has been added at least as many units as the dearer one, and
\* of two positions of equal price the one that comes first in the ledger at least as
\* many as the other; a position without a price has been added none; and the cash
\* returned is the starting cash less the sum over the positions of added units *
\* price.
C29_CheaperGetsNoFewer ==
    RedistReturned
        => /\ \A p, q \in PricedPositions :
                 (\/ PositionPrice(p) < PositionPrice(q)
                  \/ PositionPrice(p) = PositionPrice(q) /\ p < q)
                    => AddedUnits(p) >= AddedUnits(q)
           /\ \A k \in DOMAIN df :
                 /\ k \in PricedPositions
                       => AddedUnits(k) = Cardinality({ j \in DOMAIN purchases :
                                                          purchases[j].symbol = df[k].Symbol })
                 /\ (k \notin PricedPositions /\ df[k].Symbol # "CASH") => AddedUnits(k) = 0
           /\ final_remaining_cash = remaining_cash - AddedCost(PricedPositions)

\* C29's case: redistribution returned after adding units to a dearer position and
\* more units to a cheaper one.
C29_Witness ==
    /\ RedistReturned
    /\ \E p, q \in PricedPositions :
          /\ PositionPrice(p) < PositionPrice(q)
          /\ AddedUnits(q) >= 1
          /\ AddedUnits(p) > AddedUnits(q)
    /\ final_remaining_cash = remaining_cash - AddedCost(PricedPositions)

\* C29 as stated: of two buyable positions with price(P) <= price(Q), P has been
\* added at least as many units as Q.
C29_OrderAsStated ==
    RedistReturned
        => \A p, q \in { k \in PricedPositions :
                            \E i \in DOMAIN buyable_stocks :
                               buyable_stocks[i].symbol = df[k].Symbol } :
              PositionPrice(p) <= PositionPrice(q) => AddedUnits(p) >= AddedUnits(q)

(***************************************************************************)
(* Properties of the rebalance cycle (Spec)                                *)
(***************************************************************************)
Decided == pc \notin { "run_algorithm", "load", "decide", "exit" }
CycleDone == pc = "done" /\ ~dry_run

\* C5: after the decision, sell is the current symbols outside the top 2K, hold is
\* the current symbols inside the top 2K and outside the top K, and buy is the top K
\* in ranked order, held symbols included.
C5_DecisionRule ==
    Decided =>
        LET current_symbols == ColumnSymbol(current_portfolio)
            top_2K == { sorted_stocks[k].symbol :
                          k \in { j \in DOMAIN sorted_stocks : j <= TOP_40_COUNT } }
            top_K == { sorted_stocks[k].symbol :
                         k \in { j \in DOMAIN sorted_stocks : j <= TOP_20_COUNT } }
        IN /\ sell_list = current_symbols \ top_2K
           /\ hold_list = (current_symbols \cap top_2K) \ top_K
           /\ Len(buy_list) = Cardinality(top_K)
           /\ \A k \in DOMAIN buy_list : buy_list[k] = sorted_stocks[k].symbol

\* C5's case: a decision with a sell, a hold and a buy of a symbol already held.
C5_Witness ==
    /\ Decided
    /\ sell_list \ { "CASH" } # {}
    /\ hold_list # {}
    /\ Range(buy_list) \cap ColumnSymbol(current_portfolio) # {}

\* the sells and holds priced by the feed, the ledger not a new portfolio's
AllHeldPriced ==
    \A k \in DOMAIN current_portfolio :
        current_portfolio[k].Symbol # "CASH"
            => get_current_price(current_portfolio[k].Symbol) # None

\* C4: with the prices unchanged and no extra money, the total portfolio value after
\* a cycle is the value before it (here for a ledger that is not new and whose
\* positions all have a price).
C4_ValueConserved ==
    (CycleDone /\ extra_money = 0 /\ current_portfolio # << >> /\ AllHeldPriced)
        => PortfolioValue(df) = value_before

RECURSIVE PurchasesCost(_)
\* what the units of `bought` cost at the feed's prices
PurchasesCost(bought) ==
    IF bought = << >> THEN 0
    ELSE get_current_price(Head(bought).symbol)[1] + PurchasesCost(Tail(bought))

\* C6: over a cycle the purchases (the buys floored to units, then the redistribution)
\* never cost more than the available cash of the cycle, and the CASH balance written
\* at the end is what is left of it and is not negative.
C6_SpendWithinAvailableCash ==
    /\ total_investment + PurchasesCost(purchases) <= available_cash
    /\ CycleDone => /\ cash_of(file[1]) >= 0
                    /\ cash_of(file[1])
                         = available_cash - total_investment - PurchasesCost(purchases)

\* C6's case: a finished cycle that sold, bought and redistributed.
C6_Witness ==
    /\ CycleDone
    /\ sell_proceeds > 0
    /\ total_investment > 0
    /\ purchases # << >>
    /\ cash_of(file[1]) < available_cash

IsPrefix(s, t) == Len(s) <= Len(t) /\ SubSeq(t, 1, Len(s)) = s

\* the order of the steps in run_algorithm and update_portfolio
CodeOrder ==
    << "RANK_UNIVERSE", "LOAD_PORTFOLIO", "DECIDE", "LOAD_PORTFOLIO", "EXECUTE_SELLS",
       "COMPUTE_AVAILABLE_CASH", "REMOVE_SOLD", "ALLOCATE", "EXECUTE_BUYS", "PERSIST",
       "REDISTRIBUTE_LEFTOVER", "PERSIST" >>

\* the order of the steps as the state machine of the cycle is described
StatedOrder ==
    << "LOAD_PORTFOLIO", "RANK_UNIVERSE", "DECIDE", "EXECUTE_SELLS",
       "COMPUTE_AVAILABLE_CASH", "ALLOCATE", "EXECUTE_BUYS", "REDISTRIBUTE_LEFTOVER",
       "PERSIST" >>

Unpriced ==
    { s \in Range(nse200_df) :
        get_current_price(s) = None /\ estimate_price_from_returns(s) = None }

\* C11: a cycle runs to its end whatever symbols have no price, and a symbol whose
\* price resolution fails completely is skipped by every step: at the end of the
\* cycle its ledger rows are the rows the cycle loaded.
C11_UnpricedSymbolUntouched ==
    /\ ~dry_run => pc # "exit"
    /\ CycleDone => \A s \in Unpriced : rows_of(df, s) = rows_of(current_portfolio, s)

\* C12: in a dry run no step changes the portfolio file.
C12_DryRunLeavesFile == [][dry_run => file' = file]_vars

\* the Symbol column of a ledger, in row order
SymbolColumn(rows) == [ k \in DOMAIN rows |-> rows[k].Symbol ]

\* C13: every ledger a cycle writes, and the ledger it ends with, has at most one row
\* per symbol, CASH included (the ledgers of Init have no duplicate symbol).
C13_OneRowPerSymbol ==
    /\ file # None => NoDuplicates(SymbolColumn(file[1]))
    /\ NoDuplicates(SymbolColumn(df))
    /\ CycleDone => file = Some(df) /\ Len(rows_of(df, "CASH")) = 1

\* C13's case: a finished cycle on a ledger with a CASH row that bought a symbol it
\* held, added a symbol it did not hold, and redistributed.
C13_Witness ==
    /\ CycleDone
    /\ "CASH" \in ColumnSymbol(current_portfolio)
    /\ \E s \in Range(buy_list) \cap ColumnSymbol(current_portfolio) :
           rows_of(df, s) # rows_of(current_portfolio, s)
    /\ \E s \in Range(buy_list) \ ColumnSymbol(current_portfolio) :
           s \in ColumnSymbol(df)
    /\ purchases # << >>

\* C14: in every state of a cycle, so after every buy and every unit redistribution
\* adds, the Units of every row of a real symbol is a non-negative integer (the
\* ledgers of Init hold whole units).
C14_WholeUnits ==
    \A k \in DOMAIN df : df[k].Symbol # "CASH" => df[k].Units \in Nat

\* C14's case: a finished cycle whose buy step set a position and whose
\* redistribution added units to it.
C14_Witness ==
    /\ CycleDone
    /\ total_investment > 0
    /\ Len(purchases) >= 2
    /\ \E k \in DOMAIN df : df[k].Symbol # "CASH" /\ df[k].Units >= 3

\* C25: for a loaded ledger with a CASH row, the decision puts the reserved symbol
\* CASH in none of the sell, buy and hold lists.
C25_CashNeverListed ==
    (Decided /\ "CASH" \in ColumnSymbol(current_portfolio))
        => /\ "CASH" \notin sell_list
           /\ "CASH" \notin Range(buy_list)
           /\ "CASH" \notin hold_list

\* the portfolio file holds the write that follows the buys (line 439) and the write
\* that follows the redistribution (line 459) has not been made
AfterFirstWrite ==
    /\ ~dry_run
    /\ pc \in { "redistribute", "redist_while", "redist_for", "redist_finish",
                "redist_returned" }

\* C26: whenever the portfolio file holds a write of the cycle, its CASH row is the
\* cash left when it was written: the available cash less the investment of the buys
\* after the first write, and less the redistributed units as well after the second.
C26_CashRowAtEveryWrite ==
    /\ AfterFirstWrite
          => /\ file # None
             /\ cash_of(file[1]) = available_cash - total_investment
    /\ CycleDone
          => cash_of(file[1])
                = available_cash - total_investment - PurchasesCost(purchases)

\* what a step does to the rows of the hold list's symbols, as C30 describes it
C30_Step ==
    \A s \in hold_list :
        IF pc = "update_portfolio"
        THEN \* the ledger is read again (line 326)
             rows_of(df', s) = rows_of(current_portfolio, s)
        ELSE IF pc = "redist_for"
        THEN /\ Len(rows_of(df', s)) = 1
             /\ rows_of(df', s)[1].Units - rows_of(df, s)[1].Units \in { 0, 1 }
        ELSE rows_of(df', s) = rows_of(df, s)

\* C30: the row of a hold-list symbol (held, in the top 2K, outside the top K) is
\* left as it was loaded by every step of update_portfolio (the sell proceeds, the
\* removal of the sold rows, the buys, the CASH row and the writes) but the steps of
\* the redistribution's pass, each of which leaves it or adds one whole unit to it.
C30_HoldUntouchedButRedistribution == [][C30_Step]_vars

\* C30's case: a finished cycle that sold a position, bought, and whose redistribution
\* added units to a hold-list position.
C30_Witness ==
    /\ CycleDone
    /\ sell_proceeds > 0
    /\ total_investment > 0
    /\ \E s \in hold_list :
          /\ Len(rows_of(df, s)) = 1
          /\ rows_of(df, s)[1].Units > rows_of(current_portfolio, s)[1].Units

(***************************************************************************)
(* Properties of calculate_units_to_buy (SpecUnits)                        *)
(***************************************************************************)
\* C18: when the resolver returns a price, calculate_units_to_buy returns that price
\* and the whole units the amount buys at it; the estimate is the price returned only
\* when the resolver returned None, and with neither the call returns (0, 0).
C18_EstimateOnlyWithoutPrice ==
    pc = "units_returned" =>
        LET resolved == get_current_price(call_symbol)
            estimate == estimate_price_from_returns(call_symbol)
            units == units_and_price[1]
            price == units_and_price[2]
        IN /\ resolved # None
                => /\ price = resolved[1]
                   /\ RatLE(RatInt(units * price), call_amount)
                   /\ RatLT(call_amount, RatInt((units + 1) * price))
           /\ resolved = None
                => price = (IF estimate # None THEN estimate[1] ELSE 0)

\* C18's case: a call where the resolver returned a price, an estimate different from
\* it was there to be had, and the amount bought at least one unit.
C18_Witness ==
    /\ pc = "units_returned"
    /\ get_current_price(call_symbol) # None
    /\ estimate_price_from_returns(call_symbol) # None
    /\ estimate_price_from_returns(call_symbol) # get_current_price(call_symbol)
    /\ units_and_price[1] >= 1

(***************************************************************************)
(* Properties of _process_candle_data (SpecCandles)                        *)
(***************************************************************************)
\* the candles of a response with the earliest, and with the latest, timestamp
Earliest(w) == { c \in Range(w) : \A d \in Range(w) : datesort(c) <= datesort(d) }
Latest(w) == { c \in Range(w) : \A d \in Range(w) : datesort(c) >= datesort(d) }
DistinctTimestamps(w) == \A a, b \in DOMAIN w : a # b => datesort(w[a]) # datesort(w[b])
Reversed(w) == [ k \in DOMAIN w |-> w[Len(w) + 1 - k] ]
Doubled(w) == [ k \in DOMAIN w |-> Candle(w[k][1], 2 * w[k][5]) ]

\* C16: the return of a non-empty window is (latest close - earliest close) /
\* earliest close for a candle with the earliest and a candle with the latest
\* timestamp (None when that earliest close is 0); with distinct timestamps it is the
\* same for the response in the opposite order; and it is the return of the window
\* with every close doubled.
C16_ReturnOfWindow ==
    (pc = "processed" /\ window # << >>)
        => /\ \E e \in Earliest(window), l \in Latest(window) :
                 candle_return = (IF e[5] = 0 THEN None
                                  ELSE Some(Rat(l[5] - e[5], e[5])))
           /\ DistinctTimestamps(window)
                 => _process_candle_data(Reversed(window)) = candle_return
           /\ _process_candle_data(Doubled(window)) = candle_return

\* C16's case: a response of three candles with distinct timestamps, neither newest
\* first nor oldest first, whose return is not zero.
C16_Witness ==
    /\ pc = "processed"
    /\ Len(window) = 3
    /\ DistinctTimestamps(window)
    /\ window[1] \notin Latest(window) \cup Earliest(window)
    /\ candle_return # None
    /\ candle_return # Some(RatInt(0))

(***************************************************************************)
(* Properties of calculate_returns_for_all_stocks (SpecRank)               *)
(***************************************************************************)
\* the position of a symbol in the universe table
UniversePosition(s) == CHOOSE k \in DOMAIN nse200_df : nse200_df[k] = s
\* the request of a symbol gave no return: it failed, or answered no candle, or
\* candles whose earliest close is 0
NoReturn(s) ==
    \/ responses[s] = None
    \/ responses[s][1] = << >>
    \/ \E e \in Earliest(responses[s][1]) : e[5] = 0

\* C15: the ranking has exactly one entry for every symbol of the universe; the gains
\* never increase along it; entries of equal gain are in the universe's order; and
\* the gain of a symbol whose request failed, answered no candle or answered a zero
\* earliest close is 0, that of any other symbol being the return of its candles.
C15_RankingComplete ==
    pc = "ranked" =>
        /\ Len(sorted_stocks) = Len(nse200_df)
        /\ \A s \in Range(nse200_df) :
              Cardinality({ k \in DOMAIN sorted_stocks : sorted_stocks[k].symbol = s }) = 1
        /\ \A i, j \in DOMAIN sorted_stocks :
              i < j => /\ RatLE(sorted_stocks[j].gain, sorted_stocks[i].gain)
                       /\ sorted_stocks[i].gain = sorted_stocks[j].gain
                            => UniversePosition(sorted_stocks[i].symbol)
                                 < UniversePosition(sorted_stocks[j].symbol)
        /\ \A k \in DOMAIN sorted_stocks :
              LET s == sorted_stocks[k].symbol
              IN IF NoReturn(s) THEN sorted_stocks[k].gain = RatInt(0)
                 ELSE \E e \in Earliest(responses[s][1]), l \in Latest(responses[s][1]) :
                         sorted_stocks[k].gain = Rat(l[5] - e[5], e[5])

\* C15's case: a ranking with a gain on top, a loss at the bottom, and between them
\* a symbol whose request failed ranked before a later symbol of the universe that
\* answered no candle or a zero earliest close.
C15_Witness ==
    /\ pc = "ranked"
    /\ RatLT(RatInt(0), sorted_stocks[1].gain)
    /\ RatLT(sorted_stocks[Len(sorted_stocks)].gain, RatInt(0))
    /\ responses[sorted_stocks[2].symbol] = None
    /\ responses[sorted_stocks[3].symbol] # None
    /\ NoReturn(sorted_stocks[3].symbol)

(***************************************************************************)
(* Properties of get_current_price (SpecPrice)                             *)
(***************************************************************************)
PriceReturned == pc = "price_returned"
\* the strategy of the k-th request when every strategy before it used all its attempts
StatedStrategy(k) ==
    CASE k <= max_retries -> [ interval |-> "day", days_back |-> 10 ]
      [] k <= 2 * max_retries -> [ interval |-> "day", days_back |-> 30 ]
      [] OTHER -> [ interval |-> "month", days_back |-> 90 ]

\* C17: the requests go through daily/10 days, daily/30 days and monthly/90 days in
\* this order, each strategy asked max_retries times before the next; a request that
\* answers at least one candle is the last one and the call returns the close of a
\* candle with the latest timestamp of that response; the call returns None only
\* after every attempt of every strategy answered no candle.
C17_FirstStrategyWithCandles ==
    /\ Len(fetches) <= max_retries * Len(strategies)
    /\ \A k \in DOMAIN fetches :
          /\ fetches[k].strategy = StatedStrategy(k)
          /\ fetches[k].candles # << >>
                => /\ k = Len(fetches)
                   /\ PriceReturned
                   /\ latest_price # None
                   /\ \E l \in Latest(fetches[k].candles) : latest_price = Some(l[5])
    /\ (PriceReturned /\ latest_price = None)
          => /\ Len(fetches) = max_retries * Len(strategies)
             /\ \A k \in DOMAIN fetches : fetches[k].candles = << >>
    /\ ~PriceReturned => latest_price = None

\* C17's case: the first strategy used up its attempts, the second answered candles,
\* not newest first and of different closes, and the call returned.
C17_Witness ==
    /\ PriceReturned
    /\ latest_price # None
    /\ Len(fetches) > max_retries
    /\ LET answer == fetches[Len(fetches)].candles
       IN /\ Len(answer) >= 2
          /\ answer[1] \notin Latest(answer)
          /\ latest_price # Some(answer[1][5])

\* the last request answered no price
RequestFailed == fetches # << >> /\ latest_price = None
\* the attempt (from 0) of the last request within its strategy
LastAttempt == (Len(fetches) - 1) % max_retries
\* the sleep between two strategies (line 621) follows the last request
StrategyExhausted == LastAttempt = max_retries - 1

\* C24 as amended: a strategy is asked at most max_retries times; a rate-limit
\* response, and a request exception (a network error) as well, is followed by a sleep
\* of 2^attempt seconds; an HTTP error, an API error, an empty result or another
\* exception is followed by no backoff; after a failed attempt that is not the
\* strategy's last the resolver is at the next attempt of the same strategy, after the
\* last it sleeps the half second between strategies and is at the first attempt of
\* the next one; it returns None exactly when every attempt of every strategy failed.
C24_RetriesAndBackoff ==
    /\ \A k \in DOMAIN strategies :
          Cardinality({ j \in DOMAIN fetches : fetches[j].strategy = strategies[k] })
             <= max_retries
    /\ RequestFailed
          => /\ slept = (IF outcome \in { "429", "request_exception" }
                         THEN << RatInt(2 ^ LastAttempt) >> ELSE << >>)
                        \o (IF StrategyExhausted THEN << Rat(1, 2) >> ELSE << >>)
             /\ IF StrategyExhausted
                THEN /\ attempt = 0
                     /\ strategy_idx = Len(fetches) \div max_retries + 1
                     /\ PriceReturned <=> strategy_idx > Len(strategies)
                ELSE /\ attempt = LastAttempt + 1
                     /\ strategy_idx = Len(fetches) \div max_retries + 1
                     /\ fetches[Len(fetches)].strategy = strategies[strategy_idx]
                     /\ ~PriceReturned
    /\ PriceReturned
          => (latest_price = None
                <=> /\ Len(fetches) = max_retries * Len(strategies)
                    /\ \A j \in DOMAIN fetches : fetches[j].candles = << >>)

\* C24's case: the second attempt of the second strategy met a rate limit and the
\* resolver backed off two seconds before the strategy's last attempt.
C24_Witness ==
    /\ outcome = "429"
    /\ strategy_idx = 2
    /\ attempt = 2
    /\ slept = << RatInt(2) >>
    /\ ~PriceReturned

\* C24 as stated: a failure that is not a rate-limit response and not the strategy's
\* last attempt is followed by no wait.
C24_NoWaitAsStated ==
    (RequestFailed /\ outcome # "429" /\ ~StrategyExhausted) => slept = << >>

(***************************************************************************)
(* Properties of APICache (SpecCache)                                      *)
(***************************************************************************)
\* C19: a get returns (it does not raise); a response it returns is the one the last
\* set of that key stored, and that set is at most ttl_seconds old, so an expired
\* entry is a miss; and when the key's file is damaged the get is a miss and the file
\* is gone after it.
C19_GetHonoursTtlAndPurges ==
    cached # NoGet =>
        /\ cached.raised = ""
        /\ cached.value # None
              => /\ cached.key \in DOMAIN stored
                 /\ cached.value = Some(stored[cached.key].response)
                 /\ now - stored[cached.key].time <= ttl_seconds
        /\ cached.found \in DamagedKinds
              => /\ cached.value = None
                 /\ cached.key \notin DOMAIN cache_files

\* C27: a get of a key that no set has written since the last clear_all is a miss.
C27_MissAfterClearAll ==
    (cached # NoGet /\ cached.key \in cleared) => cached.value = None

\* C28: every key of the in-memory response map has an entry in the timestamp map,
\* in every state any sequence of set, get, clear_expired, clear_all, restarts and
\* damage to the files reaches with time passing, so that the expiry branch of get
\* (lines 122-125) never deletes a timestamp that is not there.
C28_MemoryKeysHaveTimestamps ==
    /\ DOMAIN _cache_memory \subseteq DOMAIN _cache_timestamps
    /\ cached.raised # "KeyError"

\* C28's case: a get has just taken the expiry branch for a key held in memory, after
\* a clear_all, while another key is still held in memory.
C28_Witness ==
    /\ cached # NoGet
    /\ cached.value = None
    /\ cached.key \in DOMAIN stored
    /\ cached.key \in cleared
    /\ cached.key \notin DOMAIN _cache_memory
    /\ now - stored[cached.key].time > ttl_seconds
    /\ _cache_memory # EmptyDict

====
